---- MODULE Spec2Model ----
(***************************************************************************)
(* Model of the ingestion-and-lifecycle pipeline of tennis-elbow-hub:      *)
(*   - the wire decoder          (backend/app/services/parser.py)          *)
(*   - the lifecycle tracker     (StatsService.track_matches)              *)
(*   - the stats aggregator      (StatsService._try_finish_match)          *)
(*   - the fetch cycle           (ScraperService.fetch_servers)            *)
(*                                                                         *)
(* Strings are sequences of one-character strings, so that splitting,      *)
(* stripping, lower-casing and tokenizing are computed, not assumed.       *)
(*                                                                         *)
(* The store is modelled with the semantics of PostgreSQL at READ          *)
(* COMMITTED, the production back end named in core/database.py: an        *)
(* INSERT whose unique key collides with an uncommitted row of another     *)
(* transaction waits for that transaction to end; an UPDATE of a row       *)
(* another transaction has updated waits likewise.  SQLite, the            *)
(* development back end, serialises writers and so allows a subset of      *)
(* these interleavings.                                                    *)
(***************************************************************************)
EXTENDS Integers, Sequences, FiniteSets, Bags, TLC

(***************************************************************************)
(* Strings                                                                 *)
(***************************************************************************)
DigitChars == {"0", "1", "2", "3", "4", "5", "6", "7", "8", "9"}

HexChars == DigitChars \cup {"A", "B", "C", "D", "E", "F", "a", "b", "c", "d", "e", "f"}

WhiteSpace == {" ", "\t", "\n", "\r"}

UpperLetters == <<"A", "B", "C", "D", "E", "F", "G", "H", "I", "J", "K", "L", "M",
                  "N", "O", "P", "Q", "R", "S", "T", "U", "V", "W", "X", "Y", "Z">>

LowerLetters == <<"a", "b", "c", "d", "e", "f", "g", "h", "i", "j", "k", "l", "m",
                  "n", "o", "p", "q", "r", "s", "t", "u", "v", "w", "x", "y", "z">>

HexDigits == <<"0", "1", "2", "3", "4", "5", "6", "7", "8", "9",
               "a", "b", "c", "d", "e", "f">>

\* The index of c in the sequence q, 0 when absent.
RECURSIVE IndexOf(_, _, _)
IndexOf(q, c, i) ==
    IF i > Len(q) THEN 0 ELSE IF q[i] = c THEN i ELSE IndexOf(q, c, i + 1)

\* str.lower() on one character.
LowerChar(c) ==
    LET k == IndexOf(UpperLetters, c, 1) IN IF k = 0 THEN c ELSE LowerLetters[k]

\* str.lower()
Lower(s) == [i \in 1..Len(s) |-> LowerChar(s[i])]

\* p occurs in s at position i.
MatchesAt(s, p, i) ==
    /\ i >= 1
    /\ i + Len(p) - 1 <= Len(s)
    /\ \A k \in 1..Len(p) : s[i + k - 1] = p[k]

\* str.find(p, from i), 1-based; 0 when p does not occur.
RECURSIVE FindFrom(_, _, _)
FindFrom(s, p, i) ==
    IF i + Len(p) - 1 > Len(s) THEN 0
    ELSE IF MatchesAt(s, p, i) THEN i
    ELSE FindFrom(s, p, i + 1)

\* p in s
Contains(s, p) == FindFrom(s, p, 1) # 0

\* First and last position of s that is not white space (Len+1 and 0 when none).
RECURSIVE FirstNonSpace(_, _)
FirstNonSpace(s, i) ==
    IF i > Len(s) THEN i ELSE IF s[i] \in WhiteSpace THEN FirstNonSpace(s, i + 1) ELSE i

RECURSIVE LastNonSpace(_, _)
LastNonSpace(s, i) ==
    IF i < 1 THEN 0 ELSE IF s[i] \in WhiteSpace THEN LastNonSpace(s, i - 1) ELSE i

\* str.strip()
Strip(s) == SubSeq(s, FirstNonSpace(s, 1), LastNonSpace(s, Len(s)))

\* s.split(sep, 1): the part before the first sep and the part after it.
SplitOnce(s, sep) ==
    LET k == FindFrom(s, sep, 1) IN
    IF k = 0 THEN <<s>>
    ELSE <<SubSeq(s, 1, k - 1), SubSeq(s, k + Len(sep), Len(s))>>

\* s.split(sep): every part between occurrences of sep.
RECURSIVE Split(_, _)
Split(s, sep) ==
    LET k == FindFrom(s, sep, 1) IN
    IF k = 0 THEN <<s>>
    ELSE <<SubSeq(s, 1, k - 1)>> \o Split(SubSeq(s, k + Len(sep), Len(s)), sep)

\* s.split(): the maximal runs of non-white-space characters.
RECURSIVE SplitWhite(_)
SplitWhite(s) ==
    LET a == FirstNonSpace(s, 1) IN
    IF a > Len(s) THEN <<>>
    ELSE LET RECURSIVE EndOfWord(_)
             EndOfWord(i) == IF i <= Len(s) /\ s[i] \notin WhiteSpace
                             THEN EndOfWord(i + 1) ELSE i - 1
             b == EndOfWord(a)
         IN <<SubSeq(s, a, b)>> \o SplitWhite(SubSeq(s, b + 1, Len(s)))

\* The characters of s that belong to cs, in order.
Filter(s, cs) == SelectSeq(s, LAMBDA c : c \in cs)

\* The end of the maximal run of characters of cs that starts at i (i-1 when empty).
RECURSIVE RunEnd(_, _, _)
RunEnd(s, i, cs) ==
    IF i <= Len(s) /\ s[i] \in cs THEN RunEnd(s, i + 1, cs) ELSE i - 1

\* The value of a non-empty sequence of digits in the given base.
RECURSIVE DigitsValue(_, _)
DigitsValue(s, base) ==
    IF Len(s) = 0 THEN 0
    ELSE DigitsValue(SubSeq(s, 1, Len(s) - 1), base) * base
         + (IndexOf(HexDigits, LowerChar(s[Len(s)]), 1) - 1)

\* int(s) for a non-empty string of decimal digits.
IntOfDigits(s) == DigitsValue(s, 10)

(***************************************************************************)
(* Wire decoder: backend/app/services/parser.py, core/security.py          *)
(***************************************************************************)

\* int(value, 16), with ValueError turned into the default 0.  Python strips
\* white space, takes a sign and an optional 0x prefix, and allows single
\* underscores between digits.
HexWellFormed(w) ==
    /\ Len(w) > 0
    /\ \A i \in 1..Len(w) : w[i] \in HexChars \cup {"_"}
    /\ w[1] # "_" /\ w[Len(w)] # "_"
    /\ \A i \in 1..(Len(w) - 1) : ~(w[i] = "_" /\ w[i + 1] = "_")

\* (mutant) digits that are not well formed give a negative number, as if the
\* conversion had no default.
HexMagnitude_NoDefault(w, negative) ==
    IF ~HexWellFormed(w) THEN 0 - 1
    ELSE IF negative THEN 0 - DigitsValue(Filter(w, HexChars), 16)
    ELSE DigitsValue(Filter(w, HexChars), 16)

\* The digits w after sign and prefix.
HexMagnitude(w, negative) ==
    IF ~HexWellFormed(w) THEN 0
    ELSE IF negative THEN 0 - DigitsValue(Filter(w, HexChars), 16)
    ELSE DigitsValue(Filter(w, HexChars), 16)

\* The unsigned text u: an optional 0x prefix, which may be followed by one
\* underscore.
HexUnsigned(u, negative) ==
    IF Len(u) >= 2 /\ u[1] = "0" /\ u[2] \in {"x", "X"}
    THEN IF Len(u) >= 3 /\ u[3] = "_"
         THEN HexMagnitude(SubSeq(u, 4, Len(u)), negative)
         ELSE HexMagnitude(SubSeq(u, 3, Len(u)), negative)
    ELSE HexMagnitude(u, negative)

\* The stripped text t: an optional sign.
HexSigned(t) ==
    IF Len(t) > 0 /\ t[1] \in {"+", "-"}
    THEN HexUnsigned(SubSeq(t, 2, Len(t)), t[1] = "-")
    ELSE HexUnsigned(t, FALSE)

safe_int_from_hex(value) == HexSigned(Strip(value))

\* (mutant) the mask one bit too wide.
Bits_WideMask(value, shift, modulus) == (value \div (2 ^ shift)) % (2 * modulus)

\* (mutant) the shift without the mask.
Bits_NoMask(value, shift, modulus) == value \div (2 ^ shift)

\* (value >> shift) & mask, mask = 2^k - 1 given as its modulus 2^k.
Bits(value, shift, modulus) == (value \div (2 ^ shift)) % modulus

\* (mutant) the raw values kept where the enum does not define them.
parse_game_info_bitfield_NoFallback(value) ==
    [ trial         |-> Bits(value, 0, 4),
      player_config |-> Bits(value, 2, 8),
      nb_set        |-> Bits(value, 5, 4),
      skill_mode    |-> Bits(value, 7, 4),
      games_per_set |-> Bits(value, 18, 8),
      control_mode  |-> Bits(value, 22, 4),
      preview       |-> Bits(value, 24, 8),
      tiredness     |-> Bits(value, 27, 2) = 1 ]

\* parse_game_info_bitfield.  The enum constructors (PlayerConfig, SkillMode,
\* ControlMode) raise ValueError outside 0..3; the except arms give the fallback.
parse_game_info_bitfield(value) ==
    LET player_cfg_raw   == Bits(value, 2, 8)
        skill_mode_raw   == Bits(value, 7, 4)
        control_mode_raw == Bits(value, 22, 4)
    IN  [ trial         |-> Bits(value, 0, 4),
          player_config |-> IF player_cfg_raw \in 0..3 THEN player_cfg_raw ELSE 0,
          nb_set        |-> Bits(value, 5, 4),
          skill_mode    |-> IF skill_mode_raw \in 0..3 THEN skill_mode_raw ELSE 1,
          games_per_set |-> Bits(value, 18, 8),
          control_mode  |-> IF control_mode_raw \in 0..3 THEN control_mode_raw ELSE 0,
          preview       |-> Bits(value, 24, 8),
          tiredness     |-> Bits(value, 27, 2) = 1 ]

\* The position of the first c at or after i, 0 when there is none.
RECURSIVE FindChar(_, _, _)
FindChar(s, c, i) ==
    IF i > Len(s) THEN 0 ELSE IF s[i] = c THEN i ELSE FindChar(s, c, i + 1)

\* SERVER_PATTERN at position i of line (i <= Len(line)), with
\* tokenize_server_line's choice "group(1) or group(2) or group(3) or
\* group(4)": the tokens appended (none or one) and the position at which the
\* scan goes on.  An empty group is falsy, so an empty quoted string gives
\* token None and is not appended; where no alternative matches, the scan
\* moves one character on.
ScanAt(line, i) ==
    IF line[i] = "\"" /\ FindChar(line, "\"", i + 1) # 0
    THEN <<IF FindChar(line, "\"", i + 1) = i + 1 THEN <<>>
           ELSE <<SubSeq(line, i + 1, FindChar(line, "\"", i + 1) - 1)>>,
           FindChar(line, "\"", i + 1) + 1>>
    ELSE IF line[i] \in HexChars
    THEN <<(<<SubSeq(line, i, RunEnd(line, i, HexChars))>>),
           RunEnd(line, i, HexChars) + 1>>
    ELSE IF line[i] = "*"
    THEN <<(<<(<<"*">>)>>), i + 1>>
    ELSE IF line[i] \in DigitChars \cup {"."}
    THEN <<(<<SubSeq(line, i, RunEnd(line, i, DigitChars \cup {"."}))>>),
           RunEnd(line, i, DigitChars \cup {"."}) + 1>>
    ELSE <<(<<>>), i + 1>>

\* SERVER_PATTERN.finditer from position i on: the tokens appended.
RECURSIVE TokenizeFrom(_, _)
TokenizeFrom(line, i) ==
    IF i > Len(line) THEN <<>>
    ELSE ScanAt(line, i)[1] \o TokenizeFrom(line, ScanAt(line, i)[2])

tokenize_server_line(line) == TokenizeFrom(line, 1)

\* A "$" of re.match also matches just before a final newline.
BeforeDollar(token) ==
    IF Len(token) > 0 /\ token[Len(token)] = "\n"
    THEN SubSeq(token, 1, Len(token) - 1) ELSE token

\* re.match(r"^[0-9A-Fa-f]+$", token)
IsHexToken(token) ==
    LET t == BeforeDollar(token) IN
    Len(t) > 0 /\ \A i \in 1..Len(t) : t[i] \in HexChars

\* re.match(r"^\d+\.\d+\.\d+\.\d+$", token)
IsDottedQuad(token) ==
    LET t     == BeforeDollar(token)
        parts == Split(t, <<".">>)
    IN  /\ Len(parts) = 4
        /\ \A k \in 1..4 :
              Len(parts[k]) > 0 /\ \A i \in 1..Len(parts[k]) : parts[k][i] \in DigitChars

\* The fields of GameServer that pydantic declares ge=0; a violation raises
\* inside parse_server_entry, whose except arm returns None.
GameServerValid(r) ==
    /\ r.port >= 0
    /\ r.max_ping >= 0
    /\ r.elo >= 0
    /\ r.nb_game >= 0
    /\ r.creation_time_ms >= 0

\* What GameServer(...) yields: <<record>>, or <<>> when validation raises.
GameServerOf(r) == IF GameServerValid(r) THEN <<r>> ELSE <<>>

\* The decoded ip field: "0" stands for a started match.
IpOf(ip_raw) == IF ip_raw = <<"0">> THEN <<"0", ".", "0", ".", "0", ".", "0">> ELSE ip_raw

\* parse_server_entry: <<record>>, or <<>> for None.
parse_server_entry(tokens) ==
    IF Len(tokens) < 14 THEN <<>>
    ELSE GameServerOf(
           [ ip               |-> IpOf(tokens[1]),
             port             |-> safe_int_from_hex(tokens[2]),
             match_name       |-> tokens[3],
             game_info        |-> parse_game_info_bitfield(safe_int_from_hex(tokens[4])),
             max_ping         |-> safe_int_from_hex(tokens[5]),
             elo              |-> safe_int_from_hex(tokens[6]),
             nb_game          |-> safe_int_from_hex(tokens[7]),
             tag_line         |-> tokens[8],
             score            |-> tokens[9],
             other_elo        |-> safe_int_from_hex(tokens[10]),
             give_up_rate     |-> safe_int_from_hex(tokens[11]),
             reputation       |-> safe_int_from_hex(tokens[12]),
             surface_name     |-> tokens[13],
             creation_time_ms |-> safe_int_from_hex(tokens[14]),
             is_started       |-> tokens[1] = <<"0">> ])

\* The boundary test of parse_server_data at token i, with the tokens
\* accumulated so far.
is_boundary(all_tokens, i, current_tokens) ==
    LET token == all_tokens[i] IN
    \/ token \in {<<"0">>, <<"*">>, <<"0", ".", "0", ".", "0", ".", "0">>}
    \/ IsDottedQuad(token)
    \/ /\ Len(current_tokens) >= 14
       /\ IsHexToken(token)
       /\ i + 1 <= Len(all_tokens)

\* The while loop of parse_server_data from token i on, and the final entry.
RECURSIVE ParseLoop(_, _, _)
ParseLoop(all_tokens, i, current_tokens) ==
    IF i > Len(all_tokens)
    THEN IF Len(current_tokens) >= 14 THEN parse_server_entry(current_tokens) ELSE <<>>
    ELSE IF is_boundary(all_tokens, i, current_tokens) /\ Len(current_tokens) >= 14
         THEN parse_server_entry(current_tokens)
              \o ParseLoop(all_tokens, i + 1, <<all_tokens[i]>>)
         ELSE ParseLoop(all_tokens, i + 1, Append(current_tokens, all_tokens[i]))

\* parse_server_data: the list of the records the generator yields.
parse_server_data(raw_data) == ParseLoop(tokenize_server_line(raw_data), 1, <<>>)

(***************************************************************************)
(* GameServer: backend/app/models/game_server.py                           *)
(***************************************************************************)
VsSep == <<" ", "v", "s", " ">>

UnknownName == <<"U", "n", "k", "n", "o", "w", "n">>

WaitingName == <<"w", "a", "i", "t", "i", "n", "g">>

\* GameServer.player_names
player_names(s) ==
    IF Contains(s.match_name, VsSep)
    THEN LET parts == SplitOnce(s.match_name, VsSep) IN <<Strip(parts[1]), Strip(parts[2])>>
    ELSE <<s.match_name, UnknownName>>

\* GameServer.match_id hashes "creation_time_ms:match_name:port" (SHA-256, 64
\* bits kept).  The text determines the three fields, so the id is modelled by
\* the triple itself: equal ids iff equal triples (no hash collision).
match_id(s) == <<s.creation_time_ms, s.match_name, s.port>>

(***************************************************************************)
(* Stats aggregator, pure part: backend/app/services/stats_service.py      *)
(***************************************************************************)
Mods == {"xkt", "wtsl", "vanilla"}

Formats == {"bo1", "bo3", "bo5"}

\* The twelve counter columns of daily_stats.
Columns == Mods \X ({"total"} \cup Formats)

\* StatsService.MIN_GAMES_THRESHOLD
MIN_GAMES_THRESHOLD == 5

\* (mutant) xkt looked for before wtsl.
_detect_mod_XktFirst(server) ==
    LET tag == Lower(server.tag_line) IN
    IF Contains(tag, <<"x", "k", "t">>) THEN "xkt"
    ELSE IF Contains(tag, <<"w", "t", "s", "l">>) THEN "wtsl"
    ELSE "vanilla"

\* StatsService._detect_mod
_detect_mod(server) ==
    LET tag == Lower(server.tag_line) IN
    IF Contains(tag, <<"w", "t", "s", "l">>) THEN "wtsl"
    ELSE IF Contains(tag, <<"x", "k", "t">>) THEN "xkt"
    ELSE "vanilla"

\* StatsService._detect_format
_detect_format(server) ==
    LET nb_set == server.game_info.nb_set IN
    IF nb_set \in {0, 1} THEN "bo1"
    ELSE IF nb_set = 2 THEN "bo3"
    ELSE IF nb_set = 3 THEN "bo5"
    ELSE "bo1"

LiveSep == <<" ", "-", "-", " ">>

\* (mutant) the score is taken as it comes.
CleanScore_NoSplit(score) == score

\* Step 1 of _try_finish_match: the score without its live point suffix.
CleanScore(score) ==
    IF Contains(score, LiveSep) THEN Strip(Split(score, LiveSep)[1]) ELSE score

\* The test that makes _try_finish_match return False before any insert.
ScoreInvalid(clean_score) ==
    \/ Len(clean_score) = 0
    \/ clean_score = <<".", ".", ".">>
    \/ clean_score = <<"0", "/", "0">>

\* An optional string: None, or a name.
NoName == [some |-> FALSE, val |-> <<>>]

SomeName(n) == [some |-> TRUE, val |-> n]

\* The loop of _determine_winner over the sets, from set k on.
RECURSIVE CountSets(_, _, _)
CountSets(sets, k, acc) ==
    IF k > Len(sets) THEN acc
    ELSE
      LET s == sets[k] IN
      IF ~Contains(s, <<"/">>) THEN CountSets(sets, k + 1, acc)
      ELSE
        LET parts  == Split(s, <<"/">>)
            g1_str == Filter(parts[1], DigitChars)
            g2_str == Filter(Split(parts[2], <<"(">>)[1], DigitChars)
        IN
        IF Len(g1_str) = 0 \/ Len(g2_str) = 0 THEN CountSets(sets, k + 1, acc)
        ELSE
          LET g1 == IntOfDigits(g1_str)
              g2 == IntOfDigits(g2_str)
          IN CountSets(sets, k + 1,
                 [ p1_sets_won   |-> acc.p1_sets_won + (IF g1 > g2 THEN 1 ELSE 0),
                   p2_sets_won   |-> acc.p2_sets_won + (IF g2 > g1 THEN 1 ELSE 0),
                   p1_last_games |-> g1,
                   p2_last_games |-> g2 ])

\* (mutant) the sets alone decide.
_determine_winner_SetsOnly(match_name, clean_score) ==
    IF Len(clean_score) = 0 \/ ~Contains(match_name, VsSep) THEN NoName
    ELSE
      LET names == SplitOnce(match_name, VsSep)
          p1    == Strip(names[1])
          p2    == Strip(names[2])
          r     == CountSets(SplitWhite(clean_score), 1,
                       [ p1_sets_won |-> 0, p2_sets_won |-> 0,
                         p1_last_games |-> 0, p2_last_games |-> 0 ])
      IN  IF r.p1_sets_won > r.p2_sets_won THEN SomeName(p1)
          ELSE IF r.p2_sets_won > r.p1_sets_won THEN SomeName(p2)
          ELSE NoName

\* StatsService._determine_winner
_determine_winner(match_name, clean_score) ==
    IF Len(clean_score) = 0 \/ ~Contains(match_name, VsSep) THEN NoName
    ELSE
      LET names == SplitOnce(match_name, VsSep)
          p1    == Strip(names[1])
          p2    == Strip(names[2])
          r     == CountSets(SplitWhite(clean_score), 1,
                       [ p1_sets_won |-> 0, p2_sets_won |-> 0,
                         p1_last_games |-> 0, p2_last_games |-> 0 ])
      IN  IF r.p1_sets_won > r.p2_sets_won THEN SomeName(p1)
          ELSE IF r.p2_sets_won > r.p1_sets_won THEN SomeName(p2)
          ELSE IF r.p1_last_games > r.p2_last_games THEN SomeName(p1)
          ELSE IF r.p2_last_games > r.p1_last_games THEN SomeName(p2)
          ELSE NoName

(***************************************************************************)
(* The upstream listing: records in the wire format of the match-listing   *)
(* service, one blob per poll                                              *)
(***************************************************************************)
\* 0 1F90 "Waiting" 40 64 5DC 6 "XKT v4" "..." 5DC 0 0 "Clay" 100
WireW ==
    <<"0", " ", "1", "F", "9", "0", " ", "\"", "W", "a", "i", "t", "i", "n", "g", "\"", " ", "4", "0", " ", "6", "4", " ", "5", "D", "C", " ", "6", " ", "\"", "X", "K", "T", " ", "v", "4", "\"", " ", "\"", ".", ".", ".", "\"", " ", "5", "D", "C", " ", "0", " ", "0", " ", "\"", "C", "l", "a", "y", "\"", " ", "1", "0", "0">>

\* 0 1F90 "A vs B" 40 64 5DC 6 "XKT v4" "6/4 7/5" 5DC 0 0 "Clay" 100
WireAB ==
    <<"0", " ", "1", "F", "9", "0", " ", "\"", "A", " ", "v", "s", " ", "B", "\"", " ", "4", "0", " ", "6", "4", " ", "5", "D", "C", " ", "6", " ", "\"", "X", "K", "T", " ", "v", "4", "\"", " ", "\"", "6", "/", "4", " ", "7", "/", "5", "\"", " ", "5", "D", "C", " ", "0", " ", "0", " ", "\"", "C", "l", "a", "y", "\"", " ", "1", "0", "0">>

\* 0 1F90 "a vs E" 40 64 5DC 7 "wtsl 2" "6/3 4/6 1/1 -- 00:40" 5DC 0 0 "Clay" 100
WireAE ==
    <<"0", " ", "1", "F", "9", "0", " ", "\"", "a", " ", "v", "s", " ", "E", "\"", " ", "4", "0", " ", "6", "4", " ", "5", "D", "C", " ", "7", " ", "\"", "w", "t", "s", "l", " ", "2", "\"", " ", "\"", "6", "/", "3", " ", "4", "/", "6", " ", "1", "/", "1", " ", "-", "-", " ", "0", "0", ":", "4", "0", "\"", " ", "5", "D", "C", " ", "0", " ", "0", " ", "\"", "C", "l", "a", "y", "\"", " ", "1", "0", "0">>

\* 0 1F90 "C vs D" 40 64 5DC 5 "v1" "7/6(5) 1/0" 5DC 0 0 "Clay" 100
WireCD ==
    <<"0", " ", "1", "F", "9", "0", " ", "\"", "C", " ", "v", "s", " ", "D", "\"", " ", "4", "0", " ", "6", "4", " ", "5", "D", "C", " ", "5", " ", "\"", "v", "1", "\"", " ", "\"", "7", "/", "6", "(", "5", ")", " ", "1", "/", "0", "\"", " ", "5", "D", "C", " ", "0", " ", "0", " ", "\"", "C", "l", "a", "y", "\"", " ", "1", "0", "0">>

\* 0 1F90 "Unknown" 40 64 5DC 6 "v1" "2/1" 5DC 0 0 "Clay" 100
WireUN ==
    <<"0", " ", "1", "F", "9", "0", " ", "\"", "U", "n", "k", "n", "o", "w", "n", "\"", " ", "4", "0", " ", "6", "4", " ", "5", "D", "C", " ", "6", " ", "\"", "v", "1", "\"", " ", "\"", "2", "/", "1", "\"", " ", "5", "D", "C", " ", "0", " ", "0", " ", "\"", "C", "l", "a", "y", "\"", " ", "1", "0", "0">>

\* 0 1F92 "G vs H" 60 64 5DC 4 "v1" "3/1" 5DC 0 0 "Grass" 200
WireGH ==
    <<"0", " ", "1", "F", "9", "2", " ", "\"", "G", " ", "v", "s", " ", "H", "\"", " ", "6", "0", " ", "6", "4", " ", "5", "D", "C", " ", "4", " ", "\"", "v", "1", "\"", " ", "\"", "3", "/", "1", "\"", " ", "5", "D", "C", " ", "0", " ", "0", " ", "\"", "G", "r", "a", "s", "s", "\"", " ", "2", "0", "0">>

\* 82.1.2.3 1F93 "I" 40 64 5DC 9 "v1" "6/0 3/0" 5DC 0 0 "Clay" 300
WireNS ==
    <<"8", "2", ".", "1", ".", "2", ".", "3", " ", "1", "F", "9", "3", " ", "\"", "I", "\"", " ", "4", "0", " ", "6", "4", " ", "5", "D", "C", " ", "9", " ", "\"", "v", "1", "\"", " ", "\"", "6", "/", "0", " ", "3", "/", "0", "\"", " ", "5", "D", "C", " ", "0", " ", "0", " ", "\"", "C", "l", "a", "y", "\"", " ", "3", "0", "0">>

\* 0 1F90 "A vs B" 40 64 5DC 8 "XKT v4" "6/4 7/5 1/0" 5DC 0 0 "Clay" 100
\* (the match of WireAB two games later: same match_id, other fields)
WireAB2 ==
    <<"0", " ", "1", "F", "9", "0", " ", "\"", "A", " ", "v", "s", " ", "B", "\"", " ", "4", "0", " ", "6", "4", " ", "5", "D", "C", " ", "8", " ", "\"", "X", "K", "T", " ", "v", "4", "\"", " ", "\"", "6", "/", "4", " ", "7", "/", "5", " ", "1", "/", "0", "\"", " ", "5", "D", "C", " ", "0", " ", "0", " ", "\"", "C", "l", "a", "y", "\"", " ", "1", "0", "0">>

\* 0 1F94 "T vs U" 40 64
\* (a record cut off after its fifth field)
WireTR ==
    <<"0", " ", "1", "F", "9", "4", " ", "\"", "T", " ", "v", "s", " ", "U", "\"", " ", "4", "0", " ", "6", "4">>

Wire == <<WireW, WireAB, WireAE, WireCD, WireUN, WireGH, WireNS, WireAB2, WireTR>>

\* Bounds of the model.
MaxListed == 2

NumCtx == 2

MaxDay == 2

\* The listings the upstream may serve: at most MaxListed of the wire records,
\* in the order of Wire.
Listings == {L \in SUBSET (1..Len(Wire)) : Cardinality(L) <= MaxListed}

\* The blob of a listing: its records, separated by a space.
RECURSIVE BlobFrom(_, _)
BlobFrom(L, i) ==
    IF i > Len(Wire) THEN <<>>
    ELSE IF i \in L THEN Wire[i] \o <<" ">> \o BlobFrom(L, i + 1)
    ELSE BlobFrom(L, i + 1)

BlobOf(L) == BlobFrom(L, 1)

\* What the decoder yields for each listing, as a table computed once.
DecodedTable == {<<L, parse_server_data(BlobOf(L))>> : L \in Listings}

Decoded == [L \in Listings |-> (CHOOSE p \in DecodedTable : p[1] = L)[2]]

Days == 1..MaxDay

\* The execution contexts: worker processes in Spec, tasks of one process in
\* the tracker specifications.  Each owns one database session at a time.
Ctx == 1..NumCtx

(***************************************************************************)
(* State                                                                   *)
(***************************************************************************)
VARIABLES
    fm_rows,           \* committed rows of finished_matches (a bag)
    ds_rows,           \* committed rows of daily_stats, in creation order
    sess,              \* per context: the session of its _try_finish_match call
    scope,             \* history: the (match_id, day) pairs finish was called on
    previous_matches,  \* StatsService._previous_matches of the process
    frame,             \* per context: the locals of its fetch_servers call
    clock,             \* the current local day (_get_today)
    dec,               \* the locals of a parse_server_data call
    gi,                \* the argument and the result of a parse_game_info_bitfield call
    hub,               \* the poll loop, its update signal and the websocket handlers
    mgr                \* the ConnectionManager and the calls on it

vars == <<fm_rows, ds_rows, sess, scope, previous_matches, frame, clock, dec, gi, hub, mgr>>

EmptyMap == [x \in {} |-> x]

ZeroCounters == [col \in Columns |-> 0]

\* A session outside any call.  tx_fm, tx_ds and tx_inc are the uncommitted
\* work of its open transaction; kind, exc, tried_create, overlapped and done
\* record what the call in progress did (history, not read by the code).
IdleSession ==
    [ pc |-> "idle", server |-> <<>>, date_obj |-> 0, clean_score |-> <<>>,
      tx_fm |-> <<>>, tx_ds |-> {}, tx_inc |-> <<>>,
      ret |-> FALSE, kind |-> "none", exc |-> FALSE, tried_create |-> FALSE,
      overlapped |-> FALSE,
      done |-> [fm |-> 0, ds |-> 0, inc |-> 0] ]

\* The locals of a fetch_servers call outside any call.  today, current_matches,
\* new_by_identity, finished_count are the locals of track_matches and order is
\* what is left of its iteration over missing_ids; listing, prev0, handed,
\* renamed, ran, raised and concurrent record what the call received and did
\* (history): concurrent says that track_matches began while another task of
\* the process was inside its own track_matches call, failed that
\* fetch_raw_data returned None.
IdleFrame ==
    [ pc |-> "idle", today |-> 0, listing |-> {}, prev0 |-> EmptyMap,
      current_matches |-> EmptyMap, order |-> <<>>, new_by_identity |-> EmptyMap,
      finished_count |-> 0, handed |-> {}, renamed |-> {}, ran |-> FALSE,
      raised |-> FALSE, concurrent |-> FALSE, failed |-> FALSE ]

\* parse_server_data outside any call.  raw_data is its argument, pos the
\* position of the scan of tokenize_server_line, all_tokens, i (counted from
\* 1) and current_tokens its locals, yielded the servers it has yielded; records, starts and groups are history: the wire records the blob
\* is made of, the positions at which line 234 began a new current_tokens, and
\* the token groups the yielded servers were built from.
IdleDecoder ==
    [ pc |-> "idle", records |-> <<>>, raw_data |-> <<>>, pos |-> 1,
      all_tokens |-> <<>>, i |-> 1, current_tokens |-> <<>>, yielded |-> <<>>,
      starts |-> {}, groups |-> <<>> ]

\* parse_game_info_bitfield outside any call.
IdleBits == [ pc |-> "idle", value |-> 0, game_info |-> <<>> ]

\* The websocket connections of the process.
NumHandlers == 2

Handlers == 1..NumHandlers

\* A websocket handler before its connection.  update_task is the state of
\* its task around scraper.wait_for_update(); woken is history: the handler's
\* wait was ended by the signal of the poll cycle in progress or just ended.
IdleHandler == [ pc |-> "new", update_task |-> "none", woken |-> FALSE ]

\* The poll loop between two cycles, no party waiting.  cycle is the parity
\* of the number of cycles begun; app is the position of the lifespan of the
\* application (main.py): "serving" after its startup.
IdleHub ==
    [ poll |-> "sleeping", cycle |-> 0, waiting |-> {},
      ws |-> [h \in Handlers |-> IdleHandler], app |-> "serving" ]

\* The websockets that ask for a connection.
NumSockets == 3

Sockets == 1..NumSockets

\* ConnectionManager.MAX_CONNECTIONS (1000 in the code).
MAX_CONNECTIONS == 2

\* The ConnectionManager after __init__.  pc is the position of each
\* websocket's handler around its connect and disconnect calls, bc the
\* position of a broadcast call and disconnected its local list.
IdleManager ==
    [ active_connections |-> <<>>, pc |-> [w \in Sockets |-> "new"],
      bc |-> "idle", disconnected |-> {} ]

(***************************************************************************)
(* The store: finished_matches(match_id UNIQUE), daily_stats(stats_date    *)
(* UNIQUE); models/finished_match.py, models/daily_stats.py                *)
(***************************************************************************)

\* (mutant) finished_matches without its unique index.
FmKeyTaken_NoIndex(rows, mid) == FALSE

\* The unique index of finished_matches.match_id already holds mid.
FmKeyTaken(rows, mid) == \E r \in BagToSet(rows) : r.match_id = mid

\* (mutant) daily_stats without its unique index.
DsKeyTaken_NoIndex(rows, d) == FALSE

\* The unique index of daily_stats.stats_date already holds d.
DsKeyTaken(rows, d) == \E i \in 1..Len(rows) : rows[i].stats_date = d

\* Another open transaction holds an uncommitted finished_matches row with
\* this key: the INSERT waits for it.
FmInsertBlocked(c, mid) ==
    \E o \in Ctx \ {c} : \E k \in 1..Len(sess[o].tx_fm) : sess[o].tx_fm[k].match_id = mid

\* Another open transaction holds an uncommitted daily_stats row for d.
DsInsertBlocked(c, d) == \E o \in Ctx \ {c} : d \in sess[o].tx_ds

\* Another open transaction has updated the committed row of d and holds its
\* row lock.
DsUpdateBlocked(c, d) ==
    \E o \in Ctx \ {c} : \E k \in 1..Len(sess[o].tx_inc) : sess[o].tx_inc[k].date = d

\* session.rollback(): the open transaction's work is discarded.
Rollback(s) == [s EXCEPT !.tx_fm = <<>>, !.tx_ds = {}, !.tx_inc = <<>>]

\* (mutant) the UPDATE sets the total alone.
Increment_TotalOnly(row, inc) ==
    IF row.stats_date # inc.date THEN row
    ELSE [row EXCEPT !.c = [col \in Columns |->
              IF col = <<inc.mod, "total">>
              THEN row.c[col] + 1 ELSE row.c[col]]]

\* The UPDATE of _try_finish_match on one row: both counters plus one.
Increment(row, inc) ==
    IF row.stats_date # inc.date THEN row
    ELSE [row EXCEPT !.c = [col \in Columns |->
              IF col = <<inc.mod, "total">> \/ col = <<inc.mod, inc.fmt>>
              THEN row.c[col] + 1 ELSE row.c[col]]]

RECURSIVE ApplyIncrements(_, _)
ApplyIncrements(rows, incs) ==
    IF Len(incs) = 0 THEN rows
    ELSE ApplyIncrements([i \in 1..Len(rows) |-> Increment(rows[i], Head(incs))], Tail(incs))

RECURSIVE SetToSeq(_)
SetToSeq(S) ==
    IF S = {} THEN <<>>
    ELSE LET x == CHOOSE y \in S : TRUE IN <<x>> \o SetToSeq(S \ {x})

RECURSIVE SeqToBag(_)
SeqToBag(q) == IF Len(q) = 0 THEN EmptyBag ELSE SetToBag({Head(q)}) (+) SeqToBag(Tail(q))

(***************************************************************************)
(* StatsService._try_finish_match, one action per database round trip      *)
(***************************************************************************)

\* Lines 150-180: the call up to its first flush.  An unusable score returns
\* False before anything is added to the session.
BeginFinish(server, date_obj) ==
    LET clean_score == CleanScore(server.score) IN
    IF ScoreInvalid(clean_score)
    THEN [IdleSession EXCEPT !.pc = "returned", !.server = <<server>>,
             !.date_obj = date_obj, !.clean_score = clean_score,
             !.ret = FALSE, !.kind = "bad_score"]
    ELSE [IdleSession EXCEPT !.pc = "flush_fm", !.server = <<server>>,
             !.date_obj = date_obj, !.clean_score = clean_score]

\* The FinishedMatch row of the call.
MatchRecord(s) ==
    [ match_id   |-> match_id(s.server[1]),
      date       |-> s.date_obj,
      match_name |-> s.server[1].match_name,
      score      |-> s.clean_score,
      winner     |-> _determine_winner(s.server[1].match_name, s.clean_score) ]

\* Lines 180-181 and 204-207: INSERT INTO finished_matches; a unique violation
\* rolls back and returns False.
FlushFM(c) ==
    LET s == sess[c] row == MatchRecord(s) IN
    /\ s.pc = "flush_fm"
    /\ ~FmInsertBlocked(c, row.match_id)
    /\ IF FmKeyTaken(fm_rows, row.match_id)
       THEN sess' = [sess EXCEPT ![c] =
                [Rollback(s) EXCEPT !.pc = "returned", !.ret = FALSE,
                                    !.kind = "integrity", !.exc = TRUE]]
       ELSE sess' = [sess EXCEPT ![c] =
                [s EXCEPT !.pc = "ensure_select", !.tx_fm = Append(s.tx_fm, row)]]
    /\ UNCHANGED <<fm_rows, ds_rows, scope, previous_matches, frame, clock, dec, gi, hub, mgr>>

\* _ensure_daily_record, lines 216-220: SELECT id WHERE stats_date = date_obj.
EnsureSelect(c) ==
    LET s == sess[c] IN
    /\ s.pc = "ensure_select"
    /\ IF DsKeyTaken(ds_rows, s.date_obj) \/ s.date_obj \in s.tx_ds
       THEN sess' = [sess EXCEPT ![c] = [s EXCEPT !.pc = "update"]]
       ELSE sess' = [sess EXCEPT ![c] =
                [s EXCEPT !.pc = "ensure_insert", !.tried_create = TRUE]]
    /\ UNCHANGED <<fm_rows, ds_rows, scope, previous_matches, frame, clock, dec, gi, hub, mgr>>

\* The except arm of _ensure_daily_record, lines 227-229: session.rollback().
EnsureConflict(s) == [Rollback(s) EXCEPT !.pc = "update", !.exc = TRUE]

\* _ensure_daily_record, lines 223-229: INSERT INTO daily_stats, and on a
\* unique violation the except arm; the call then goes on to the UPDATE.
EnsureInsert(c) ==
    LET s == sess[c] IN
    /\ s.pc = "ensure_insert"
    /\ ~DsInsertBlocked(c, s.date_obj)
    /\ IF DsKeyTaken(ds_rows, s.date_obj)
       THEN sess' = [sess EXCEPT ![c] = EnsureConflict(s)]
       ELSE sess' = [sess EXCEPT ![c] =
                [s EXCEPT !.pc = "update", !.tx_ds = s.tx_ds \cup {s.date_obj}]]
    /\ UNCHANGED <<fm_rows, ds_rows, scope, previous_matches, frame, clock, dec, gi, hub, mgr>>

\* Lines 184-199: UPDATE daily_stats SET total = total + 1, fmt = fmt + 1
\* WHERE stats_date = date_obj.  It changes the rows the transaction sees.
UpdateCounters(c) ==
    LET s   == sess[c]
        inc == [ date |-> s.date_obj, mod |-> _detect_mod(s.server[1]),
                 fmt |-> _detect_format(s.server[1]) ]
    IN
    /\ s.pc = "update"
    /\ ~DsUpdateBlocked(c, s.date_obj)
    /\ IF DsKeyTaken(ds_rows, s.date_obj) \/ s.date_obj \in s.tx_ds
       THEN sess' = [sess EXCEPT ![c] =
                [s EXCEPT !.pc = "commit", !.tx_inc = Append(s.tx_inc, inc)]]
       ELSE sess' = [sess EXCEPT ![c] = [s EXCEPT !.pc = "commit"]]
    /\ UNCHANGED <<fm_rows, ds_rows, scope, previous_matches, frame, clock, dec, gi, hub, mgr>>

\* (mutant) the commit replaces the rows of finished_matches by its own.
Commit_Replace(c) ==
    LET s == sess[c]
        created == [k \in 1..Cardinality(s.tx_ds) |->
                       [stats_date |-> SetToSeq(s.tx_ds)[k], c |-> ZeroCounters]]
    IN
    /\ s.pc = "commit"
    /\ fm_rows' = SeqToBag(s.tx_fm)
    /\ ds_rows' = ApplyIncrements(ds_rows \o created, s.tx_inc)
    /\ sess' = [sess EXCEPT ![c] =
           [Rollback(s) EXCEPT !.pc = "returned", !.ret = TRUE, !.kind = "true",
               !.done = [fm |-> Len(s.tx_fm), ds |-> Cardinality(s.tx_ds),
                         inc |-> Len(s.tx_inc)]]]
    /\ UNCHANGED <<scope, previous_matches, frame, clock, dec, gi, hub, mgr>>

\* Lines 201-202: COMMIT, return True.
Commit(c) ==
    LET s == sess[c]
        created == [k \in 1..Cardinality(s.tx_ds) |->
                       [stats_date |-> SetToSeq(s.tx_ds)[k], c |-> ZeroCounters]]
    IN
    /\ s.pc = "commit"
    /\ fm_rows' = fm_rows (+) SeqToBag(s.tx_fm)
    /\ ds_rows' = ApplyIncrements(ds_rows \o created, s.tx_inc)
    /\ sess' = [sess EXCEPT ![c] =
           [Rollback(s) EXCEPT !.pc = "returned", !.ret = TRUE, !.kind = "true",
               !.done = [fm |-> Len(s.tx_fm), ds |-> Cardinality(s.tx_ds),
                         inc |-> Len(s.tx_inc)]]]
    /\ UNCHANGED <<scope, previous_matches, frame, clock, dec, gi, hub, mgr>>

\* Lines 208-211: any other exception of a database round trip (connection
\* loss, time-out): rollback, return False.
Fault(c) ==
    LET s == sess[c] IN
    /\ s.pc \in {"flush_fm", "ensure_select", "ensure_insert", "update", "commit"}
    /\ sess' = [sess EXCEPT ![c] =
           [Rollback(s) EXCEPT !.pc = "returned", !.ret = FALSE,
                               !.kind = "error", !.exc = TRUE]]
    /\ UNCHANGED <<fm_rows, ds_rows, scope, previous_matches, frame, clock, dec, gi, hub, mgr>>

(***************************************************************************)
(* Spec: worker processes that call the aggregator on the same store       *)
(***************************************************************************)

\* The records a worker may see vanish: started, with five games or more.
FinishServers == {Decoded[{1}][1], Decoded[{2}][1], Decoded[{3}][1]}

\* The scope after one more call on (mid, day).
Widen(sc, mid, day) ==
    IF sc = <<>> THEN <<mid, day>>
    ELSE IF sc = <<mid, day>> THEN sc
    ELSE <<"mixed">>

\* A worker calls _try_finish_match(server, date_obj).
CallFinish(c, server, date_obj) ==
    /\ sess[c].pc = "idle"
    /\ sess' = [sess EXCEPT ![c] =
           [BeginFinish(server, date_obj) EXCEPT !.overlapped =
               \E o \in Ctx \ {c} : sess[o].pc \notin {"idle", "returned"}]]
    /\ scope' = Widen(scope, match_id(server), date_obj)
    /\ UNCHANGED <<fm_rows, ds_rows, previous_matches, frame, clock, dec, gi, hub, mgr>>

\* The worker takes the result.
Return(c) ==
    /\ sess[c].pc = "returned"
    /\ sess' = [sess EXCEPT ![c] = IdleSession]
    /\ UNCHANGED <<fm_rows, ds_rows, scope, previous_matches, frame, clock, dec, gi, hub, mgr>>

Init ==
    /\ fm_rows = EmptyBag
    /\ ds_rows = <<>>
    /\ sess = [c \in Ctx |-> IdleSession]
    /\ scope = <<>>
    /\ previous_matches = EmptyMap
    /\ frame = [c \in Ctx |-> IdleFrame]
    /\ clock = 1
    /\ dec = IdleDecoder
    /\ gi = IdleBits
    /\ hub = IdleHub
    /\ mgr = IdleManager

Next ==
    \E c \in Ctx :
        \/ \E server \in FinishServers, d \in Days : CallFinish(c, server, d)
        \/ FlushFM(c)
        \/ EnsureSelect(c)
        \/ EnsureInsert(c)
        \/ UpdateCounters(c)
        \/ Commit(c)
        \/ Fault(c)
        \/ Return(c)

Spec == Init /\ [][Next]_vars

(***************************************************************************)
(* Lifecycle tracker: StatsService.track_matches, and its caller           *)
(* ScraperService.fetch_servers                                            *)
(***************************************************************************)

\* Line 81: {s.match_id: s for s in current_servers}; a later record replaces
\* an earlier one with the same id.
MatchesById(servers) ==
    [ mid \in {match_id(servers[k]) : k \in 1..Len(servers)} |->
        servers[CHOOSE k \in 1..Len(servers) :
                   /\ match_id(servers[k]) = mid
                   /\ \A j \in (k + 1)..Len(servers) : match_id(servers[j]) # mid] ]

\* (mutant) every id of the previous snapshot is a candidate.
MissingOf_AllPrevious(previous, current) == DOMAIN previous

\* Lines 84-86: missing_ids = previous_ids - current_ids.
MissingOf(previous, current) == DOMAIN previous \ DOMAIN current

\* Lines 90-97.
_get_identity_key(s) ==
    <<s.creation_time_ms, s.port, s.surface_name, s.game_info.nb_set,
      s.game_info.player_config>>

\* Lines 99-102: the values the dict comprehension over the set new_ids can
\* have; where two new records share a key, the one iterated last stays, and
\* the iteration order of a set of strings is not fixed.
IdentityMaps(new_ids, current_matches) ==
    LET keys == {_get_identity_key(current_matches[mid]) : mid \in new_ids} IN
    { f \in [keys -> new_ids] :
        \A key \in keys : _get_identity_key(current_matches[f[key]]) = key }

\* The orders in which "for match_id in missing_ids" can visit the set.
Orders(S) ==
    { q \in [1..Cardinality(S) -> S] : \A i, j \in 1..Cardinality(S) : q[i] = q[j] => i = j }

\* Lines 111-112: the names of a record, lower-cased and trimmed, "Unknown"
\* left out.
NameSet(s) ==
    { Lower(Strip(n)) : n \in {player_names(s)[k] : k \in 1..2} \ {UnknownName} }

\* (mutant) the sentinel looked for on either record.
has_overlap_EitherWaiting(server, migrated_server) ==
    LET p1_names == NameSet(server)
        p2_names == NameSet(migrated_server)
    IN  \/ p1_names = {} \/ Lower(WaitingName) \in p1_names
        \/ p2_names = {} \/ Lower(WaitingName) \in p2_names
        \/ p1_names \cap p2_names # {}

\* Lines 113-114.
has_overlap(server, migrated_server) ==
    LET p1_names      == NameSet(server)
        p2_names      == NameSet(migrated_server)
        is_p1_waiting == p1_names = {} \/ Lower(WaitingName) \in p1_names
    IN  is_p1_waiting \/ p2_names = {} \/ p1_names \cap p2_names # {}

\* (mutant) a candidate must have strictly more games.
IsRenamed_StrictlyMore(server, new_by_identity, current_matches) ==
    LET identity_key == _get_identity_key(server) IN
    /\ identity_key \in DOMAIN new_by_identity
    /\ LET migrated_server == current_matches[new_by_identity[identity_key]] IN
         /\ has_overlap(server, migrated_server)
         /\ migrated_server.nb_game > server.nb_game

\* Lines 109-123: the rename detection of one missing record.
IsRenamed(server, new_by_identity, current_matches) ==
    LET identity_key == _get_identity_key(server) IN
    /\ identity_key \in DOMAIN new_by_identity
    /\ LET migrated_server == current_matches[new_by_identity[identity_key]] IN
         /\ has_overlap(server, migrated_server)
         /\ migrated_server.nb_game >= server.nb_game

\* (mutant) validation without the games threshold.
Validated_StartedOnly(server) == server.is_started

\* Lines 126-129.
Validated(server) == server.is_started /\ server.nb_game >= MIN_GAMES_THRESHOLD

\* Lines 106-139 from the head of fr.order up to the next database round trip
\* of a _try_finish_match call, or to the end of the loop.  prev is
\* self._previous_matches as it is now; a match_id it does not hold raises
\* KeyError at line 107.  The result is the frame and the session.
RECURSIVE RunLoop(_, _)
RunLoop(fr, prev) ==
    IF Len(fr.order) = 0 THEN <<[fr EXCEPT !.pc = "done"], IdleSession>>
    ELSE
      LET mid  == Head(fr.order)
          rest == [fr EXCEPT !.order = Tail(fr.order)]
      IN
      IF mid \notin DOMAIN prev
      THEN <<[fr EXCEPT !.pc = "done", !.raised = TRUE], IdleSession>>
      ELSE
        LET server == prev[mid] IN
        IF IsRenamed(server, fr.new_by_identity, fr.current_matches)
        THEN RunLoop([rest EXCEPT !.renamed = @ \cup {mid}], prev)
        ELSE IF Validated(server)
        THEN LET s == BeginFinish(server, fr.today) IN
             IF s.pc = "returned"
             THEN RunLoop([rest EXCEPT !.handed = @ \cup {mid}], prev)
             ELSE <<[rest EXCEPT !.pc = "finishing", !.handed = @ \cup {mid}], s>>
        ELSE RunLoop(rest, prev)

\* (mutant) the snapshot is replaced only when every handed match was counted.
Advance_KeepOnFailure(t, fr) ==
    LET r == RunLoop(fr, previous_matches) IN
    /\ frame' = [frame EXCEPT ![t] = r[1]]
    /\ sess' = [sess EXCEPT ![t] = r[2]]
    /\ previous_matches' =
          IF /\ r[1].pc = "done" /\ ~r[1].raised
             /\ r[1].finished_count = Cardinality(r[1].handed)
          THEN fr.current_matches
          ELSE previous_matches

\* The task goes on with its loop; when the loop ends without an exception,
\* line 141 replaces the previous snapshot.
Advance(t, fr) ==
    LET r == RunLoop(fr, previous_matches) IN
    /\ frame' = [frame EXCEPT ![t] = r[1]]
    /\ sess' = [sess EXCEPT ![t] = r[2]]
    /\ previous_matches' =
          IF r[1].pc = "done" /\ ~r[1].raised THEN fr.current_matches
          ELSE previous_matches

\* fetch_servers, line 88: the task awaits the upstream.
Fetch(t) ==
    /\ frame[t].pc = "idle"
    /\ frame' = [frame EXCEPT ![t] = [IdleFrame EXCEPT !.pc = "fetching"]]
    /\ UNCHANGED <<fm_rows, ds_rows, sess, scope, previous_matches, clock, dec, gi, hub, mgr>>

\* (mutant) an empty decoded list tracked as an empty current snapshot.
Receive_TracksEmpty(t, L) ==
    LET raw_data == BlobOf(L)
        servers  == IF raw_data # <<>> THEN Decoded[L] ELSE <<>>
        current_matches == MatchesById(servers)
        missing_ids == MissingOf(previous_matches, current_matches)
        new_ids     == DOMAIN current_matches \ DOMAIN previous_matches
        base == [IdleFrame EXCEPT !.listing = L, !.prev0 = previous_matches,
                                  !.current_matches = current_matches]
    IN
    /\ frame[t].pc = "fetching"
    /\ \E order \in Orders(missing_ids) :
       \E new_by_identity \in IdentityMaps(new_ids, current_matches) :
          Advance(t, [base EXCEPT !.pc = "tracking", !.today = clock,
                                  !.ran = TRUE, !.order = order,
                                  !.new_by_identity = new_by_identity,
                                  !.concurrent =
                                      \E o \in Ctx \ {t} : frame[o].pc = "finishing"])
    /\ UNCHANGED <<fm_rows, ds_rows, scope, clock, dec, gi, hub, mgr>>

\* fetch_servers, lines 88-101, and track_matches up to its first database
\* round trip.  The body of listing L arrives (the empty listing is an empty
\* body); an empty decoded list skips track_matches.
Receive(t, L) ==
    LET raw_data == BlobOf(L)
        servers  == IF raw_data # <<>> THEN Decoded[L] ELSE <<>>
        current_matches == MatchesById(servers)
        missing_ids == MissingOf(previous_matches, current_matches)
        new_ids     == DOMAIN current_matches \ DOMAIN previous_matches
        base == [IdleFrame EXCEPT !.listing = L, !.prev0 = previous_matches,
                                  !.current_matches = current_matches]
    IN
    /\ frame[t].pc = "fetching"
    /\ IF servers = <<>>
       THEN /\ frame' = [frame EXCEPT ![t] = [base EXCEPT !.pc = "done"]]
            /\ UNCHANGED <<sess, previous_matches>>
       ELSE \E order \in Orders(missing_ids) :
            \E new_by_identity \in IdentityMaps(new_ids, current_matches) :
               Advance(t, [base EXCEPT !.pc = "tracking", !.today = clock,
                                       !.ran = TRUE, !.order = order,
                                       !.new_by_identity = new_by_identity,
                                       !.concurrent =
                                           \E o \in Ctx \ {t} : frame[o].pc = "finishing"])
    /\ UNCHANGED <<fm_rows, ds_rows, scope, clock, dec, gi, hub, mgr>>

\* (mutant) a failed fetch tracked as an empty current snapshot.
FetchFails_TracksEmpty(t) ==
    /\ frame[t].pc = "fetching"
    /\ \E order \in Orders(DOMAIN previous_matches) :
          Advance(t, [IdleFrame EXCEPT !.pc = "tracking", !.failed = TRUE,
                                       !.prev0 = previous_matches,
                                       !.today = clock, !.order = order])
    /\ UNCHANGED <<fm_rows, ds_rows, scope, clock, dec, gi, hub, mgr>>

\* fetch_raw_data lines 56-77 and fetch_servers lines 88-108: no URL is
\* configured, or the request times out, ends with an error status or fails
\* in transport; raw_data is None, servers stays empty, track_matches is
\* skipped and the call returns an empty list.
FetchFails(t) ==
    /\ frame[t].pc = "fetching"
    /\ frame' = [frame EXCEPT ![t] =
           [IdleFrame EXCEPT !.pc = "done", !.failed = TRUE,
                             !.prev0 = previous_matches]]
    /\ UNCHANGED <<fm_rows, ds_rows, sess, scope, previous_matches, clock, dec, gi, hub, mgr>>

\* (mutant) a finish call that failed with an error ends the loop: the
\* exception leaves track_matches before line 141.
FinishReturn_AbortOnError(t) ==
    /\ frame[t].pc = "finishing"
    /\ sess[t].pc = "returned"
    /\ IF sess[t].kind = "error"
       THEN /\ frame' = [frame EXCEPT ![t] = [frame[t] EXCEPT !.pc = "done", !.raised = TRUE]]
            /\ sess' = [sess EXCEPT ![t] = IdleSession]
            /\ UNCHANGED previous_matches
       ELSE Advance(t, [frame[t] EXCEPT
                      !.finished_count = @ + (IF sess[t].ret THEN 1 ELSE 0)])
    /\ UNCHANGED <<fm_rows, ds_rows, scope, clock, dec, gi, hub, mgr>>

\* Lines 132-137: _try_finish_match has returned; counted or not, the loop
\* goes on.
FinishReturn(t) ==
    /\ frame[t].pc = "finishing"
    /\ sess[t].pc = "returned"
    /\ Advance(t, [frame[t] EXCEPT
                      !.finished_count = @ + (IF sess[t].ret THEN 1 ELSE 0)])
    /\ UNCHANGED <<fm_rows, ds_rows, scope, clock, dec, gi, hub, mgr>>

\* fetch_servers returns (or the exception of track_matches leaves it).
EndCycle(t) ==
    /\ frame[t].pc = "done"
    /\ frame' = [frame EXCEPT ![t] = IdleFrame]
    /\ UNCHANGED <<fm_rows, ds_rows, sess, scope, previous_matches, clock, dec, gi, hub, mgr>>

\* The wire records the upstream lists in SpecTrack.
TrackRecords == 1..7

TrackListings == {L \in Listings : L \subseteq TrackRecords}

\* The one task of SpecTrack.
Poller == CHOOSE t \in Ctx : TRUE

\* SpecTrack: one process whose only caller of fetch_servers is one task.
NextTrack ==
    \/ Fetch(Poller)
    \/ \E L \in TrackListings : Receive(Poller, L)
    \/ FetchFails(Poller)
    \/ FlushFM(Poller)
    \/ EnsureSelect(Poller)
    \/ EnsureInsert(Poller)
    \/ UpdateCounters(Poller)
    \/ Commit(Poller)
    \/ Fault(Poller)
    \/ FinishReturn(Poller)
    \/ EndCycle(Poller)

SpecTrack == Init /\ [][NextTrack]_vars

\* The wire records the upstream lists in SpecPoll, one at a time.
PollRecords == {2, 4}

PollListings == {{}} \cup {{r} : r \in PollRecords}

\* SpecPoll: one process in which several tasks call fetch_servers on the same
\* StatsService: the handlers of GET /scores requests (live_scores.py line 49,
\* fetch_servers_filtered line 129) and whatever else polls.  A task runs
\* until it awaits; any task may run next.
NextPoll ==
    \E t \in Ctx :
        \/ Fetch(t)
        \/ \E L \in PollListings : Receive(t, L)
        \/ FetchFails(t)
        \/ FlushFM(t)
        \/ EnsureSelect(t)
        \/ EnsureInsert(t)
        \/ UpdateCounters(t)
        \/ Commit(t)
        \/ Fault(t)
        \/ FinishReturn(t)
        \/ EndCycle(t)

SpecPoll == Init /\ [][NextPoll]_vars

\* The wire records the upstream lists in SpecRepeat: a match that stays
\* listed while its fields change, and another match.
RepeatRecords == {2, 4, 8}

RepeatListings == {L \in Listings : L \subseteq RepeatRecords}

\* SpecRepeat: the one-task process of SpecTrack, fed with listings in which
\* a match_id is listed again with other fields.
NextRepeat ==
    \/ Fetch(Poller)
    \/ \E L \in RepeatListings : Receive(Poller, L)
    \/ FetchFails(Poller)
    \/ FlushFM(Poller)
    \/ EnsureSelect(Poller)
    \/ EnsureInsert(Poller)
    \/ UpdateCounters(Poller)
    \/ Commit(Poller)
    \/ Fault(Poller)
    \/ FinishReturn(Poller)
    \/ EndCycle(Poller)

SpecRepeat == Init /\ [][NextRepeat]_vars

(***************************************************************************)
(* Measures of the committed store                                         *)
(***************************************************************************)

\* The number of committed finished_matches rows with this match_id.
FmCount(mid) ==
    BagCardinality([r \in {x \in BagToSet(fm_rows) : x.match_id = mid} |-> fm_rows[r]])

\* The number of committed finished_matches rows dated d.
FmDated(d) ==
    BagCardinality([r \in {x \in BagToSet(fm_rows) : x.date = d} |-> fm_rows[r]])

\* The number of committed daily_stats rows of day d.
DayRows(d) == Cardinality({i \in 1..Len(ds_rows) : ds_rows[i].stats_date = d})

RECURSIVE SumColumns(_, _)
SumColumns(c, cols) ==
    IF cols = {} THEN 0
    ELSE LET col == CHOOSE x \in cols : TRUE IN c[col] + SumColumns(c, cols \ {col})

\* The sum, over the rows of the days ds, of the counters of the columns cols.
RECURSIVE SumCounters(_, _, _)
SumCounters(i, ds, cols) ==
    IF i > Len(ds_rows) THEN 0
    ELSE (IF ds_rows[i].stats_date \in ds THEN SumColumns(ds_rows[i].c, cols) ELSE 0)
         + SumCounters(i + 1, ds, cols)

TotalColumns == Mods \X {"total"}

FormatColumns == Mods \X Formats

\* The sum of the three {mod}_total counters of day d.
SumTotals(d) == SumCounters(1, {d}, TotalColumns)

(***************************************************************************)
(* Claims about the aggregator under concurrent workers (Spec)             *)
(***************************************************************************)

\* C1: when every finish call made so far was on one matchId and one day, the
\* committed store never holds more than one FinishedMatch row for it, the
\* counters of that day hold exactly one {mod}_total and one {mod}_{format}
\* increment per committed row and no other day has any, and once a call has
\* returned True or met the unique violation there is exactly one row.
C1_Idempotent ==
    Len(scope) = 2 =>
        LET mid == scope[1]
            d   == scope[2]
        IN  /\ FmCount(mid) <= 1
            /\ BagCardinality(fm_rows) = FmCount(mid)
            /\ SumCounters(1, {d}, TotalColumns) = FmCount(mid)
            /\ SumCounters(1, {d}, FormatColumns) = FmCount(mid)
            /\ SumCounters(1, Days \ {d}, Columns) = 0
            /\ \A c \in Ctx :
                  sess[c].pc = "returned" /\ sess[c].kind \in {"true", "integrity"}
                      => FmCount(mid) = 1

\* C1 witness: two overlapping calls on the same matchId and day have both
\* returned, one True and one on the unique violation.
C1_Witness ==
    /\ Len(scope) = 2
    /\ \E c1, c2 \in Ctx :
          /\ sess[c1].pc = "returned" /\ sess[c1].kind = "true"
          /\ sess[c2].pc = "returned" /\ sess[c2].kind = "integrity"
          /\ sess[c2].overlapped

\* C2: for every day, the sum of the three {mod}_total counters never exceeds
\* the number of committed FinishedMatch rows dated that day.
C2_NoCountWithoutRow == \A d \in Days : SumTotals(d) <= FmDated(d)

\* C3: after two workers that each finished a different match, and both found
\* no DailyAggregate row for the day and tried to create it, have both
\* completed, the day has exactly one row, both matches have a committed
\* FinishedMatch row and the {mod}_total counters of the day sum to 2.
C3_ConcurrentCreate ==
    \A c1, c2 \in Ctx :
        ( /\ c1 # c2
          /\ sess[c1].pc = "returned" /\ sess[c2].pc = "returned"
          /\ sess[c1].kind # "error" /\ sess[c2].kind # "error"
          /\ sess[c1].tried_create /\ sess[c2].tried_create
          /\ sess[c1].date_obj = sess[c2].date_obj
          /\ match_id(sess[c1].server[1]) # match_id(sess[c2].server[1]) )
        => /\ DayRows(sess[c1].date_obj) = 1
           /\ FmCount(match_id(sess[c1].server[1])) = 1
           /\ FmCount(match_id(sess[c2].server[1])) = 1
           /\ SumTotals(sess[c1].date_obj) = 2

\* C4: a finish call returns True if and only if that call committed a new
\* FinishedMatch row together with its counter increment.
C4_TrueIffCounted ==
    \A c \in Ctx :
        sess[c].pc = "returned" =>
            (sess[c].ret <=> (sess[c].done.fm = 1 /\ sess[c].done.inc = 1))

\* C5: a finish call in which an exception was raised leaves nothing of its
\* own in the committed store: no FinishedMatch row, no DailyAggregate row, no
\* counter increment.
C5_ExceptionRollsBack ==
    \A c \in Ctx :
        sess[c].pc = "returned" /\ sess[c].exc =>
            sess[c].done = [fm |-> 0, ds |-> 0, inc |-> 0]

(***************************************************************************)
(* Claims about the lifecycle tracker (SpecTrack)                          *)
(***************************************************************************)

\* A track_matches call of task t has run to its end.
Tracked(t) == frame[t].pc = "done" /\ frame[t].ran /\ ~frame[t].raised

\* The records of the previous snapshot that the current one lacks, and the
\* records that are new in the current one.
MissingIds(t) == DOMAIN frame[t].prev0 \ DOMAIN frame[t].current_matches

NewIds(t) == DOMAIN frame[t].current_matches \ DOMAIN frame[t].prev0

\* The new record the index holds for the identity key of the missing mid.
HasCandidate(t, mid) ==
    _get_identity_key(frame[t].prev0[mid]) \in DOMAIN frame[t].new_by_identity

Candidate(t, mid) ==
    frame[t].current_matches[
        frame[t].new_by_identity[_get_identity_key(frame[t].prev0[mid])]]

\* C6: at the end of a track_matches call, a missing record that was not
\* classified RENAMED has been handed to the aggregator if and only if it was
\* started and its nb_game was at least 5; nothing else has been handed.
C6_HandedIffStartedAndFiveGames ==
    \A t \in Ctx :
        Tracked(t) =>
            /\ frame[t].handed \subseteq MissingIds(t) \ frame[t].renamed
            /\ \A mid \in MissingIds(t) \ frame[t].renamed :
                  mid \in frame[t].handed
                      <=> ( /\ frame[t].prev0[mid].is_started
                            /\ frame[t].prev0[mid].nb_game >= 5 )

\* C6 witness: two started records vanished without a rename, one at
\* nb_game = 5, handed and counted, and one at nb_game = 4, not handed.
C6_Witness ==
    \E t \in Ctx :
        /\ Tracked(t)
        /\ \E m5, m4 \in MissingIds(t) \ frame[t].renamed :
              /\ frame[t].prev0[m5].is_started /\ frame[t].prev0[m5].nb_game = 5
              /\ m5 \in frame[t].handed /\ FmCount(m5) = 1
              /\ frame[t].prev0[m4].is_started /\ frame[t].prev0[m4].nb_game = 4
              /\ m4 \notin frame[t].handed /\ FmCount(m4) = 0

\* The vanished record mid is a "Waiting" sentinel and new records share its
\* identity key, each with an equal or greater nb_game.
WaitingReplaced(t, mid) ==
    LET old  == frame[t].prev0[mid]
        same == {n \in NewIds(t) :
                    _get_identity_key(frame[t].current_matches[n]) = _get_identity_key(old)}
    IN  /\ Lower(old.match_name) = WaitingName
        /\ same # {}
        /\ \A n \in same : frame[t].current_matches[n].nb_game >= old.nb_game

NamesAllowRename(old, new) ==
    \/ NameSet(old) = {} \/ NameSet(new) = {}
    \/ WaitingName \in NameSet(old)
    \/ NameSet(old) \cap NameSet(new) # {}

NamesAllowRenameEither(old, new) ==
    NamesAllowRename(old, new) \/ WaitingName \in NameSet(new)

\* A missing record that is not RENAMED goes on to validation.
CompletionCandidate(t, mid) ==
    /\ mid \notin frame[t].renamed
    /\ mid \in frame[t].handed <=> Validated(frame[t].prev0[mid])

\* C8 as stated: a missing record with a candidate is RENAMED exactly when the
\* candidate's nb_game is >= its own and a name set is empty, or "waiting" is
\* a name of the old or of the new record, or the name sets intersect; in
\* every other case it is a completion candidate.
C8_RenamedExactlyWhen ==
    \A t \in Ctx :
        Tracked(t) =>
            \A mid \in MissingIds(t) :
                IF /\ HasCandidate(t, mid)
                   /\ Candidate(t, mid).nb_game >= frame[t].prev0[mid].nb_game
                   /\ NamesAllowRenameEither(frame[t].prev0[mid], Candidate(t, mid))
                THEN mid \in frame[t].renamed /\ mid \notin frame[t].handed
                ELSE CompletionCandidate(t, mid)

\* C8 amended: the same, with the sentinel "waiting" looked for among the
\* names of the old (vanished) record only.
C8_RenamedExactlyWhen_OldWaiting ==
    \A t \in Ctx :
        Tracked(t) =>
            \A mid \in MissingIds(t) :
                IF /\ HasCandidate(t, mid)
                   /\ Candidate(t, mid).nb_game >= frame[t].prev0[mid].nb_game
                   /\ NamesAllowRename(frame[t].prev0[mid], Candidate(t, mid))
                THEN mid \in frame[t].renamed /\ mid \notin frame[t].handed
                ELSE CompletionCandidate(t, mid)

\* C8 witness: a started record with two real names and nb_game >= 5
\* vanished, its candidate is a "Waiting" record with the same nb_game, and
\* the record was handed to the aggregator.
C8_Witness ==
    \E t \in Ctx :
        /\ Tracked(t)
        /\ \E mid \in MissingIds(t) :
              /\ HasCandidate(t, mid)
              /\ Candidate(t, mid).nb_game >= frame[t].prev0[mid].nb_game
              /\ WaitingName \in NameSet(Candidate(t, mid))
              /\ ~NamesAllowRename(frame[t].prev0[mid], Candidate(t, mid))
              /\ mid \in frame[t].handed

\* C9: the blob of the started record "A vs B" (nb_game 6, score "6/4 7/5")
\* followed by the waiting record with ip 82.1.2.3 decodes to exactly two
\* records, and a following cycle whose listing is empty finishes exactly the
\* first of them.
C9_EndToEnd ==
    /\ Len(Decoded[{2, 7}]) = 2
    /\ \A t \in Ctx :
          ( /\ frame[t].pc = "done"
            /\ frame[t].listing = {}
            /\ frame[t].prev0 = MatchesById(Decoded[{2, 7}]) )
          => frame[t].handed = {match_id(Decoded[{2}][1])}

(***************************************************************************)
(* Claims about the tasks of one process (SpecPoll)                        *)
(***************************************************************************)

\* C10: within one process no track_matches call begins while another call
\* is suspended in a database round trip.
C10_TrackNeverOverlaps == \A t \in Ctx : ~frame[t].concurrent

\* The step in which the track_matches call of task t ends.
TrackEnds(t) ==
    /\ frame[t].pc # "done"
    /\ frame'[t].pc = "done" /\ frame'[t].ran /\ ~frame'[t].raised

\* C11: the step that ends a track_matches call leaves as previous snapshot
\* exactly the decoded records of that call keyed by match_id, whatever the
\* aggregator answered; and the previous snapshot changes in no other step
\* (it is never modified during the call, only replaced at its end).
C11_SnapshotReplacedAtEnd ==
    [][ /\ \A t \in Ctx :
              TrackEnds(t) =>
                  previous_matches' = MatchesById(Decoded[frame'[t].listing])
        /\ previous_matches' # previous_matches => \E t \in Ctx : TrackEnds(t) ]_vars

\* C11 witness: a call ended in which two matches were handed to the
\* aggregator and only one was counted, and the previous snapshot is the
\* current one, which differs from the one the call started with.
C11_Witness ==
    \E t \in Ctx :
        /\ Tracked(t)
        /\ Cardinality(frame[t].handed) = 2
        /\ frame[t].finished_count = 1
        /\ previous_matches = MatchesById(Decoded[frame[t].listing])
        /\ previous_matches # frame[t].prev0

\* C12: during and after a track_matches call, every record handed to the
\* aggregator is in the previous snapshot and absent from the current one: a
\* match_id present in both snapshots is never handed, whatever its fields.
C12_OnlyMissingHanded ==
    \A t \in Ctx :
        frame[t].ran =>
            /\ frame[t].handed \subseteq MissingIds(t)
            /\ frame[t].pc = "finishing" => match_id(sess[t].server[1]) \in MissingIds(t)
            /\ \A mid \in DOMAIN frame[t].prev0 \cap DOMAIN frame[t].current_matches :
                  mid \notin frame[t].handed

\* C12 witness: a call ended in which a started match stayed listed under
\* the same match_id with more games and another score, another match
\* vanished and was handed, and the match that stayed was not.
C12_Witness ==
    \E t \in Ctx :
        /\ Tracked(t)
        /\ frame[t].handed # {}
        /\ \E mid \in DOMAIN frame[t].prev0 \cap DOMAIN frame[t].current_matches :
              /\ frame[t].prev0[mid] # frame[t].current_matches[mid]
              /\ frame[t].prev0[mid].is_started /\ frame[t].prev0[mid].nb_game >= 5
              /\ mid \notin frame[t].handed
              /\ FmCount(mid) = 0

\* C13: the step in which a fetch fails ends the cycle without an exception
\* and without a track_matches call, and changes neither the previous
\* snapshot nor any store row; and as long as the failed cycle has not been
\* left, nothing was handed to the aggregator and the previous snapshot is
\* the one the cycle started with, so the next cycle compares against it.
C13_FailedFetchIsNoOp ==
    [][ \A t \in Ctx :
          /\ ( frame[t].pc = "fetching" /\ frame'[t].failed )
                => /\ frame'[t].pc = "done" /\ ~frame'[t].raised /\ ~frame'[t].ran
                   /\ UNCHANGED <<previous_matches, fm_rows, ds_rows, sess>>
          /\ ( frame'[t].pc = "done" /\ frame'[t].failed )
                => /\ frame'[t].handed = {}
                   /\ previous_matches' = frame'[t].prev0 ]_vars

\* C13 witness: a fetch failed while the previous snapshot held a started
\* match with five games or more; the match is still in the previous
\* snapshot and has no FinishedMatch row.
C13_Witness ==
    \E t \in Ctx :
        /\ frame[t].pc = "done" /\ frame[t].failed
        /\ previous_matches = frame[t].prev0
        /\ \E mid \in DOMAIN previous_matches :
              Validated(previous_matches[mid]) /\ FmCount(mid) = 0

\* The finish call of task t ended in the arm of lines 208-211.
FinishFailed(t) ==
    frame[t].pc = "finishing" /\ sess[t].pc = "returned" /\ sess[t].kind = "error"

\* C14: (1) a finish call that fails with an error other than the unique
\* violation returns False with nothing committed and nothing pending, and
\* the step in which it fails leaves the store as it was; (2) when the loop
\* takes that result it counts nothing for the match, raises nothing, and
\* either hands the aggregator another match still missing or ends with every
\* missing match handed, classified RENAMED or short of the threshold, and
\* with the snapshot replaced by the current listing; (3) a match handed in a cycle is out of the snapshot
\* at the end of the cycle, a match is only ever handed from the snapshot,
\* and an id only enters the snapshot from the listing of the cycle, so the
\* failed match is handed again only after the upstream lists it again.
C14_FailedFinishSkipped ==
    [][ \A t \in Ctx :
          /\ ( sess[t].kind # "error" /\ sess'[t].kind = "error" )
                => /\ UNCHANGED <<fm_rows, ds_rows>>
                   /\ ~sess'[t].ret /\ sess'[t].done = IdleSession.done
                   /\ sess'[t].tx_fm = <<>> /\ sess'[t].tx_ds = {} /\ sess'[t].tx_inc = <<>>
          /\ ( FinishFailed(t) /\ frame'[t] # frame[t] )
                => /\ UNCHANGED <<fm_rows, ds_rows>>
                   /\ frame'[t].finished_count = frame[t].finished_count
                   /\ ~frame'[t].raised
                   /\ frame'[t].pc \in {"finishing", "done"}
                   /\ frame'[t].pc = "finishing" =>
                         /\ match_id(sess'[t].server[1]) \in MissingIds(t) \ frame[t].handed
                         /\ sess'[t].kind = "none"
                   /\ frame'[t].pc = "done" =>
                         /\ previous_matches' = frame[t].current_matches
                         /\ \A mid \in MissingIds(t) :
                               \/ mid \in frame'[t].handed \cup frame'[t].renamed
                               \/ ~Validated(frame[t].prev0[mid])
          /\ TrackEnds(t) => frame'[t].handed \cap DOMAIN previous_matches' = {}
          /\ frame'[t].pc \in {"finishing", "done"} /\ frame[t].pc \in {"fetching", "finishing"}
                => frame'[t].handed \ frame[t].handed \subseteq DOMAIN previous_matches
          /\ frame'[t].pc # "idle"
                => DOMAIN previous_matches' \ DOMAIN previous_matches
                      \subseteq DOMAIN frame'[t].current_matches ]_vars

\* C14 witness: the first of two missing matches was handed to the aggregator
\* and failed with an error (its score is usable and the store holds no row
\* at all, so it was neither rejected nor a duplicate), nothing was counted,
\* and the same track_matches call is now about to commit the second.
C14_Witness ==
    \E t \in Ctx :
        /\ frame[t].pc = "finishing" /\ sess[t].pc = "commit"
        /\ Cardinality(frame[t].handed) = 2 /\ frame[t].finished_count = 0
        /\ fm_rows = EmptyBag
        /\ \A mid \in frame[t].handed :
              ~ScoreInvalid(CleanScore(frame[t].prev0[mid].score))

(***************************************************************************)
(* SpecScore: worker processes that call the aggregator with the scores    *)
(* the upstream may send                                                   *)
(***************************************************************************)

\* 0 1F90 "A vs B" 40 64 5DC 6 "XKT v4" "<score>" 5DC 0 0 "Clay" 100
ScoreHead ==
    <<"0", " ", "1", "F", "9", "0", " ", "\"", "A", " ", "v", "s", " ", "B", "\"", " ", "4", "0", " ", "6", "4", " ", "5", "D", "C", " ", "6", " ", "\"", "X", "K", "T", " ", "v", "4", "\"", " ", "\"">>

ScoreTail ==
    <<"\"", " ", "5", "D", "C", " ", "0", " ", "0", " ", "\"", "C", "l", "a", "y", "\"", " ", "1", "0", "0">>

\* The scores: '6/3 4/6 1/1 -- 00:40', '6/4 7/5', '6/4 5/4  -- 40:A -- 15:0', '...', '0/0', '0/0 -- 0:0', ' -- 40:15'
ScoreCases ==
    { <<"6", "/", "3", " ", "4", "/", "6", " ", "1", "/", "1", " ", "-", "-", " ", "0", "0", ":", "4", "0">>,
      <<"6", "/", "4", " ", "7", "/", "5">>,
      <<"6", "/", "4", " ", "5", "/", "4", " ", " ", "-", "-", " ", "4", "0", ":", "A", " ", "-", "-", " ", "1", "5", ":", "0">>,
      <<".", ".", ".">>,
      <<"0", "/", "0">>,
      <<"0", "/", "0", " ", "-", "-", " ", "0", ":", "0">>,
      <<" ", "-", "-", " ", "4", "0", ":", "1", "5">> }

\* The records the decoder yields for them.
ScoreServers == {parse_server_data(ScoreHead \o sc \o ScoreTail)[1] : sc \in ScoreCases}

NextScore ==
    \E c \in Ctx :
        \/ \E server \in ScoreServers : CallFinish(c, server, clock)
        \/ FlushFM(c)
        \/ EnsureSelect(c)
        \/ EnsureInsert(c)
        \/ UpdateCounters(c)
        \/ Commit(c)
        \/ Fault(c)
        \/ Return(c)

SpecScore == Init /\ [][NextScore]_vars

\* The scores that are not results: empty, and the two placeholders.
Placeholders == { <<>>, <<".", ".", ".">>, <<"0", "/", "0">> }

\* The score with everything from its first " -- " on dropped.
DroppedFrom(score) ==
    IF \E k \in 1..Len(score) : MatchesAt(score, LiveSep, k)
    THEN SubSeq(score, 1,
              (CHOOSE k \in 1..Len(score) :
                  /\ MatchesAt(score, LiveSep, k)
                  /\ \A j \in 1..(k - 1) : ~MatchesAt(score, LiveSep, j)) - 1)
    ELSE score

\* The same, and the white space around what is left removed.
DroppedFromTrimmed(score) ==
    IF DroppedFrom(score) = score THEN score ELSE Strip(DroppedFrom(score))

\* The rows a step adds to finished_matches.
AddedRows == BagToSet(fm_rows' (-) fm_rows)

\* C15 as stated: the normalized score is the score with everything from the
\* first " -- " on dropped; a call whose normalized score is empty, "..." or
\* "0/0" returns False at once and neither its own steps nor its return
\* change a row; any other call goes on, and the row it commits carries the
\* normalized score.
C15_ScoreNormalized_DropOnly ==
    [][ \A c \in Ctx :
          /\ ( sess[c].pc = "idle" /\ sess'[c].pc # "idle" )
                => /\ sess'[c].kind = "bad_score"
                         <=> DroppedFrom(sess'[c].server[1].score) \in Placeholders
                   /\ sess'[c].kind = "bad_score"
                         => /\ UNCHANGED <<fm_rows, ds_rows>>
                            /\ sess'[c].pc = "returned" /\ ~sess'[c].ret
                            /\ sess'[c].tx_fm = <<>> /\ sess'[c].tx_ds = {}
                            /\ sess'[c].tx_inc = <<>>
          /\ ( sess[c].kind = "bad_score" /\ sess'[c] # sess[c] )
                => UNCHANGED <<fm_rows, ds_rows>> /\ sess'[c] = IdleSession
          /\ ( sess[c].pc = "commit" /\ sess'[c].kind = "true" )
                => \A r \in AddedRows : r.score = DroppedFrom(sess[c].server[1].score) ]_vars

\* C15, corrected: the same with the normalized score being what is left of
\* the score before its first " -- " with the white space around it removed
\* (a score without " -- " is taken as it is).
C15_ScoreNormalized ==
    [][ \A c \in Ctx :
          /\ ( sess[c].pc = "idle" /\ sess'[c].pc # "idle" )
                => /\ sess'[c].kind = "bad_score"
                         <=> DroppedFromTrimmed(sess'[c].server[1].score) \in Placeholders
                   /\ sess'[c].kind = "bad_score"
                         => /\ UNCHANGED <<fm_rows, ds_rows>>
                            /\ sess'[c].pc = "returned" /\ ~sess'[c].ret
                            /\ sess'[c].tx_fm = <<>> /\ sess'[c].tx_ds = {}
                            /\ sess'[c].tx_inc = <<>>
          /\ ( sess[c].kind = "bad_score" /\ sess'[c] # sess[c] )
                => UNCHANGED <<fm_rows, ds_rows>> /\ sess'[c] = IdleSession
          /\ ( sess[c].pc = "commit" /\ sess'[c].kind = "true" )
                => \A r \in AddedRows :
                      /\ r.score = DroppedFromTrimmed(sess[c].server[1].score)
                      /\ r.score \notin Placeholders ]_vars

\* C15 witness: the store holds the row of a call whose score had a live
\* point suffix after two spaces, with the suffix and the spaces gone, while
\* another call, on "0/0 -- 0:0", has returned False.
C15_Witness ==
    /\ \E r \in BagToSet(fm_rows) : r.score = <<"6", "/", "4", " ", "5", "/", "4">>
    /\ \E c \in Ctx :
          /\ sess[c].pc = "returned" /\ sess[c].kind = "bad_score" /\ ~sess[c].ret
          /\ sess[c].server[1].score = <<"0", "/", "0", " ", "-", "-", " ", "0", ":", "0">>
    /\ ds_rows # <<>>

(***************************************************************************)
(* SpecDecode: parse_server_data on blobs of wire records                  *)
(***************************************************************************)

\* A wire record is a list of fields separated by a space; a field is bare or
\* quoted.
\* A started match: 0 1F90 "A vs B" 40 64 5DC 6 "XKT v4" "6/4 7/5" 5DC 0 0 "Clay" 100
RecAB ==
    << [q |-> FALSE, t |-> <<"0">>],
       [q |-> FALSE, t |-> <<"1", "F", "9", "0">>],
       [q |-> TRUE, t |-> <<"A", " ", "v", "s", " ", "B">>],
       [q |-> FALSE, t |-> <<"4", "0">>],
       [q |-> FALSE, t |-> <<"6", "4">>],
       [q |-> FALSE, t |-> <<"5", "D", "C">>],
       [q |-> FALSE, t |-> <<"6">>],
       [q |-> TRUE, t |-> <<"X", "K", "T", " ", "v", "4">>],
       [q |-> TRUE, t |-> <<"6", "/", "4", " ", "7", "/", "5">>],
       [q |-> FALSE, t |-> <<"5", "D", "C">>],
       [q |-> FALSE, t |-> <<"0">>],
       [q |-> FALSE, t |-> <<"0">>],
       [q |-> TRUE, t |-> <<"C", "l", "a", "y">>],
       [q |-> FALSE, t |-> <<"1", "0", "0">>] >>

\* A waiting host, its address all zeros: 0.0.0.0 1F91 "P1" 40 64 5DC 0 "v1" "..." 5DC 0 0 "Clay" 200
RecZW ==
    << [q |-> FALSE, t |-> <<"0", ".", "0", ".", "0", ".", "0">>],
       [q |-> FALSE, t |-> <<"1", "F", "9", "1">>],
       [q |-> TRUE, t |-> <<"P", "1">>],
       [q |-> FALSE, t |-> <<"4", "0">>],
       [q |-> FALSE, t |-> <<"6", "4">>],
       [q |-> FALSE, t |-> <<"5", "D", "C">>],
       [q |-> FALSE, t |-> <<"0">>],
       [q |-> TRUE, t |-> <<"v", "1">>],
       [q |-> TRUE, t |-> <<".", ".", ".">>],
       [q |-> FALSE, t |-> <<"5", "D", "C">>],
       [q |-> FALSE, t |-> <<"0">>],
       [q |-> FALSE, t |-> <<"0">>],
       [q |-> TRUE, t |-> <<"C", "l", "a", "y">>],
       [q |-> FALSE, t |-> <<"2", "0", "0">>] >>

\* A waiting host with its address: 82.1.2.3 1F93 "I" 40 64 5DC 0 "v1" "..." 5DC 0 0 "Clay" 300
RecIP ==
    << [q |-> FALSE, t |-> <<"8", "2", ".", "1", ".", "2", ".", "3">>],
       [q |-> FALSE, t |-> <<"1", "F", "9", "3">>],
       [q |-> TRUE, t |-> <<"I">>],
       [q |-> FALSE, t |-> <<"4", "0">>],
       [q |-> FALSE, t |-> <<"6", "4">>],
       [q |-> FALSE, t |-> <<"5", "D", "C">>],
       [q |-> FALSE, t |-> <<"0">>],
       [q |-> TRUE, t |-> <<"v", "1">>],
       [q |-> TRUE, t |-> <<".", ".", ".">>],
       [q |-> FALSE, t |-> <<"5", "D", "C">>],
       [q |-> FALSE, t |-> <<"0">>],
       [q |-> FALSE, t |-> <<"0">>],
       [q |-> TRUE, t |-> <<"C", "l", "a", "y">>],
       [q |-> FALSE, t |-> <<"3", "0", "0">>] >>

\* A started match with an empty tag line: 0 1F94 "E vs F" 40 64 5DC 6 "" "6/4" 5DC 0 0 "Grass" 400
RecET ==
    << [q |-> FALSE, t |-> <<"0">>],
       [q |-> FALSE, t |-> <<"1", "F", "9", "4">>],
       [q |-> TRUE, t |-> <<"E", " ", "v", "s", " ", "F">>],
       [q |-> FALSE, t |-> <<"4", "0">>],
       [q |-> FALSE, t |-> <<"6", "4">>],
       [q |-> FALSE, t |-> <<"5", "D", "C">>],
       [q |-> FALSE, t |-> <<"6">>],
       [q |-> TRUE, t |-> <<>>],
       [q |-> TRUE, t |-> <<"6", "/", "4">>],
       [q |-> FALSE, t |-> <<"5", "D", "C">>],
       [q |-> FALSE, t |-> <<"0">>],
       [q |-> FALSE, t |-> <<"0">>],
       [q |-> TRUE, t |-> <<"G", "r", "a", "s", "s">>],
       [q |-> FALSE, t |-> <<"4", "0", "0">>] >>

\* Fourteen fields of which the first is a number other than 0: 5 1F95 "J vs K" 40 64 5DC 6 "v1" "6/4" 5DC 0 0 "Clay" 500
RecHX ==
    << [q |-> FALSE, t |-> <<"5">>],
       [q |-> FALSE, t |-> <<"1", "F", "9", "5">>],
       [q |-> TRUE, t |-> <<"J", " ", "v", "s", " ", "K">>],
       [q |-> FALSE, t |-> <<"4", "0">>],
       [q |-> FALSE, t |-> <<"6", "4">>],
       [q |-> FALSE, t |-> <<"5", "D", "C">>],
       [q |-> FALSE, t |-> <<"6">>],
       [q |-> TRUE, t |-> <<"v", "1">>],
       [q |-> TRUE, t |-> <<"6", "/", "4">>],
       [q |-> FALSE, t |-> <<"5", "D", "C">>],
       [q |-> FALSE, t |-> <<"0">>],
       [q |-> FALSE, t |-> <<"0">>],
       [q |-> TRUE, t |-> <<"C", "l", "a", "y">>],
       [q |-> FALSE, t |-> <<"5", "0", "0">>] >>

\* A short trailer: * 5 "end"
RecTS ==
    << [q |-> FALSE, t |-> <<"*">>],
       [q |-> FALSE, t |-> <<"5">>],
       [q |-> TRUE, t |-> <<"e", "n", "d">>] >>

\* A trailer of fourteen fields: * 1F90 "T" 40 64 5DC 6 "t" "x" 5DC 0 0 "Clay" 100
RecTL ==
    << [q |-> FALSE, t |-> <<"*">>],
       [q |-> FALSE, t |-> <<"1", "F", "9", "0">>],
       [q |-> TRUE, t |-> <<"T">>],
       [q |-> FALSE, t |-> <<"4", "0">>],
       [q |-> FALSE, t |-> <<"6", "4">>],
       [q |-> FALSE, t |-> <<"5", "D", "C">>],
       [q |-> FALSE, t |-> <<"6">>],
       [q |-> TRUE, t |-> <<"t">>],
       [q |-> TRUE, t |-> <<"x">>],
       [q |-> FALSE, t |-> <<"5", "D", "C">>],
       [q |-> FALSE, t |-> <<"0">>],
       [q |-> FALSE, t |-> <<"0">>],
       [q |-> TRUE, t |-> <<"C", "l", "a", "y">>],
       [q |-> FALSE, t |-> <<"1", "0", "0">>] >>

\* An incomplete record: 0 1F96 "K vs L" 40
RecIN ==
    << [q |-> FALSE, t |-> <<"0">>],
       [q |-> FALSE, t |-> <<"1", "F", "9", "6">>],
       [q |-> TRUE, t |-> <<"K", " ", "v", "s", " ", "L">>],
       [q |-> FALSE, t |-> <<"4", "0">>] >>

\* A started match with three numeric fields that are not numbers:
\* 0 1F97 "M vs N" 40 "zz" 5DC 6 "v1" "6/4" 5DC .5 * "Clay" 600
RecBH ==
    << [q |-> FALSE, t |-> <<"0">>],
       [q |-> FALSE, t |-> <<"1", "F", "9", "7">>],
       [q |-> TRUE, t |-> <<"M", " ", "v", "s", " ", "N">>],
       [q |-> FALSE, t |-> <<"4", "0">>],
       [q |-> TRUE, t |-> <<"z", "z">>],
       [q |-> FALSE, t |-> <<"5", "D", "C">>],
       [q |-> FALSE, t |-> <<"6">>],
       [q |-> TRUE, t |-> <<"v", "1">>],
       [q |-> TRUE, t |-> <<"6", "/", "4">>],
       [q |-> FALSE, t |-> <<"5", "D", "C">>],
       [q |-> FALSE, t |-> <<".", "5">>],
       [q |-> FALSE, t |-> <<"*">>],
       [q |-> TRUE, t |-> <<"C", "l", "a", "y">>],
       [q |-> FALSE, t |-> <<"6", "0", "0">>] >>

Recs == << RecAB, RecZW, RecIP, RecET, RecHX, RecTS, RecTL, RecIN, RecBH >>

\* Bound: the number of records of a blob.
MaxRecords == 2

\* The blobs: every list of at most MaxRecords records.
RecordLists == UNION { [1..k -> 1..Len(Recs)] : k \in 0..MaxRecords }

\* The text of a field on the wire.
FieldText(f) == IF f.q THEN <<"\"">> \o f.t \o <<"\"">> ELSE f.t

RECURSIVE RecordText(_)
RecordText(fields) ==
    IF Len(fields) = 0 THEN <<>>
    ELSE IF Len(fields) = 1 THEN FieldText(fields[1])
    ELSE FieldText(fields[1]) \o <<" ">> \o RecordText(Tail(fields))

RECURSIVE BlobText(_)
BlobText(q) ==
    IF Len(q) = 0 THEN <<>>
    ELSE IF Len(q) = 1 THEN RecordText(Recs[q[1]])
    ELSE RecordText(Recs[q[1]]) \o <<" ">> \o BlobText(Tail(q))

\* parse_server_data(raw_data) is called.
InitDecode ==
    /\ fm_rows = EmptyBag
    /\ ds_rows = <<>>
    /\ sess = [c \in Ctx |-> IdleSession]
    /\ scope = <<>>
    /\ previous_matches = EmptyMap
    /\ frame = [c \in Ctx |-> IdleFrame]
    /\ clock = 1
    /\ gi = IdleBits
    /\ hub = IdleHub
    /\ mgr = IdleManager
    /\ \E q \in RecordLists :
          dec = [IdleDecoder EXCEPT !.pc = "called", !.records = q,
                                    !.raw_data = BlobText(q)]

\* Line 207, tokenize_server_line lines 107-111: the scan of the pattern goes
\* one match, or one unmatched character, further.
Tokenize ==
    /\ dec.pc = "called"
    /\ dec.pos <= Len(dec.raw_data)
    /\ dec' = [dec EXCEPT !.all_tokens = @ \o ScanAt(dec.raw_data, dec.pos)[1],
                          !.pos = ScanAt(dec.raw_data, dec.pos)[2]]
    /\ UNCHANGED <<fm_rows, ds_rows, sess, scope, previous_matches, frame, clock, gi, hub, mgr>>

\* Line 112 and lines 210-211: the tokens are returned and the loop begins.
Tokenized ==
    /\ dec.pc = "called"
    /\ dec.pos > Len(dec.raw_data)
    /\ dec' = [dec EXCEPT !.pc = "loop"]
    /\ UNCHANGED <<fm_rows, ds_rows, sess, scope, previous_matches, frame, clock, gi, hub, mgr>>

\* Lines 212-236: one turn of the while loop.
LoopStep ==
    LET token == dec.all_tokens[dec.i]
        server == parse_server_entry(dec.current_tokens)
    IN
    /\ dec.pc = "loop"
    /\ dec.i <= Len(dec.all_tokens)
    /\ IF /\ is_boundary(dec.all_tokens, dec.i, dec.current_tokens)
          /\ Len(dec.current_tokens) >= 14
       THEN dec' = [dec EXCEPT !.i = @ + 1,
                       !.yielded = @ \o server,
                       !.groups = IF server = <<>> THEN @ ELSE Append(@, dec.current_tokens),
                       !.current_tokens = <<token>>,
                       !.starts = @ \cup {dec.i}]
       ELSE dec' = [dec EXCEPT !.i = @ + 1,
                       !.current_tokens = Append(@, token)]
    /\ UNCHANGED <<fm_rows, ds_rows, sess, scope, previous_matches, frame, clock, gi, hub, mgr>>

\* (mutant) an incomplete final entry is fatal: the call ends with an
\* exception and its records are lost.
FinalEntry_Fatal ==
    LET server == parse_server_entry(dec.current_tokens) IN
    /\ dec.pc = "loop"
    /\ dec.i > Len(dec.all_tokens)
    /\ IF Len(dec.current_tokens) >= 14
       THEN dec' = [dec EXCEPT !.pc = "done",
                       !.yielded = @ \o server,
                       !.groups = IF server = <<>> THEN @ ELSE Append(@, dec.current_tokens)]
       ELSE IF Len(dec.current_tokens) = 0 THEN dec' = [dec EXCEPT !.pc = "done"]
       ELSE dec' = [dec EXCEPT !.pc = "raised", !.yielded = <<>>]
    /\ UNCHANGED <<fm_rows, ds_rows, sess, scope, previous_matches, frame, clock, gi, hub, mgr>>

\* Lines 238-243: the final entry.
FinalEntry ==
    LET server == parse_server_entry(dec.current_tokens) IN
    /\ dec.pc = "loop"
    /\ dec.i > Len(dec.all_tokens)
    /\ IF Len(dec.current_tokens) >= 14
       THEN dec' = [dec EXCEPT !.pc = "done",
                       !.yielded = @ \o server,
                       !.groups = IF server = <<>> THEN @ ELSE Append(@, dec.current_tokens)]
       ELSE dec' = [dec EXCEPT !.pc = "done"]
    /\ UNCHANGED <<fm_rows, ds_rows, sess, scope, previous_matches, frame, clock, gi, hub, mgr>>

NextDecode == Tokenize \/ Tokenized \/ LoopStep \/ FinalEntry

SpecDecode == InitDecode /\ [][NextDecode]_vars

\* The generator of the state machine yields what parse_server_data, the
\* operator the other specifications use, computes.
DecodeAgrees == dec.pc = "done" => dec.yielded = parse_server_data(dec.raw_data)

(***************************************************************************)
(* Claims about the wire decoder                                           *)
(***************************************************************************)

\* The fields of the records of a blob, in blob order, as the wire format
\* defines them: the text of each field, quotes excluded.
RECURSIVE FieldTexts(_)
FieldTexts(fields) ==
    IF Len(fields) = 0 THEN <<>> ELSE <<fields[1].t>> \o FieldTexts(Tail(fields))

RECURSIVE ExpectedTokens(_)
ExpectedTokens(q) ==
    IF Len(q) = 0 THEN <<>> ELSE FieldTexts(Recs[q[1]]) \o ExpectedTokens(Tail(q))

\* The IP field of wire record r.
IpField(r) == Recs[r][1].t

Star == <<"*">>

Zero == <<"0">>

HasEmptyQuoted(q) ==
    \E k \in 1..Len(q) : \E j \in 1..Len(Recs[q[k]]) :
        Recs[q[k]][j].q /\ Recs[q[k]][j].t = <<>>

HasQuad(q) ==
    \E k \in 1..Len(q) : \E j \in 1..Len(Recs[q[k]]) : IsDottedQuad(Recs[q[k]][j].t)

\* C16: when parse_server_data has yielded one record per wire record of the
\* blob, the k-th yielded record is started if and only if the IP field of
\* the k-th wire record is the literal 0; in particular a record whose IP
\* field is a dotted quad is decoded with is_started false.
C16_StartedIffIpZero ==
    ( dec.pc = "done" /\ Len(dec.yielded) = Len(dec.records) ) =>
        \A k \in 1..Len(dec.records) :
            dec.yielded[k].is_started <=> IpField(dec.records[k]) = Zero

\* C17: in a blob without empty quoted strings the tokens are the fields, one
\* token per field: a dotted quad is one token and a bare 0 is the token "0".
C17_QuadIsOneToken ==
    ( dec.pc # "called" /\ ~HasEmptyQuoted(dec.records) ) =>
        dec.all_tokens = ExpectedTokens(dec.records)

\* C18: in a blob without dotted quads the tokens are the fields, one token
\* per field, the empty quoted strings included: the record with the empty
\* tag line gives 14 tokens, the eighth of which is the empty string.
C18_EmptyQuotedIsToken ==
    ( dec.pc # "called" /\ ~HasQuad(dec.records) ) =>
        dec.all_tokens = ExpectedTokens(dec.records)

\* The token stream is k groups of 14 tokens, each beginning with "0", "*" or
\* a dotted quad.
WellFormedStream(tokens) ==
    /\ Len(tokens) % 14 = 0
    /\ \A j \in 1..(Len(tokens) \div 14) :
          LET first == tokens[14 * (j - 1) + 1] IN
          first = Zero \/ first = Star \/ IsDottedQuad(first)

\* A well-formed stream of k groups has yielded k records, the j-th built from
\* the j-th group.
YieldsGroupsInOrder ==
    ( dec'.pc = "done" /\ WellFormedStream(dec'.all_tokens) ) =>
        /\ Len(dec'.yielded) = Len(dec'.all_tokens) \div 14
        /\ \A j \in 1..Len(dec'.yielded) :
              <<dec'.yielded[j]>> =
                  parse_server_entry(SubSeq(dec'.all_tokens, 14 * (j - 1) + 1, 14 * j))

\* A turn of the while loop of parse_server_data.
LoopTurn == dec.pc = "loop" /\ dec'.pc = "loop" /\ dec'.i = dec.i + 1

\* C19: a turn of the loop begins a new record at its token if and
\* only if at least 14 tokens are accumulated and the token is "0", "*" or a
\* dotted quad; and a stream of k well-formed groups yields k records in
\* order.
C19_BoundaryIff ==
    [][ /\ LoopTurn =>
            ( dec.i \in dec'.starts <=>
                /\ Len(dec.current_tokens) >= 14
                /\ \/ dec.all_tokens[dec.i] \in {Zero, Star}
                   \/ IsDottedQuad(dec.all_tokens[dec.i]) )
        /\ YieldsGroupsInOrder ]_vars

\* What lines 217-236 do instead: a turn of the loop begins a new record at
\* its token if and only if at least 14 tokens are accumulated and the token
\* is "0", "*", a dotted quad, or any run of hexadecimal digits that is not
\* the last token of the stream.
BoundaryIff_AnyHex ==
    [][ /\ LoopTurn =>
            ( dec.i \in dec'.starts <=>
                /\ Len(dec.current_tokens) >= 14
                /\ \/ dec.all_tokens[dec.i] \in {Zero, Star}
                   \/ IsDottedQuad(dec.all_tokens[dec.i])
                   \/ /\ IsHexToken(dec.all_tokens[dec.i])
                      /\ dec.i < Len(dec.all_tokens) )
        /\ YieldsGroupsInOrder ]_vars

\* The wire records of a blob before its first trailer.
RECURSIVE BeforeTrailer(_)
BeforeTrailer(q) ==
    IF Len(q) = 0 \/ IpField(q[1]) = Star THEN <<>>
    ELSE <<q[1]>> \o BeforeTrailer(Tail(q))

\* C20: when the tokens of the blob are its fields, no yielded record was
\* built from a token group that begins with "*", and at least as many
\* records were yielded as the blob has wire records before its first
\* trailer.
C20_TrailerDiscarded ==
    ( dec.pc = "done" /\ dec.all_tokens = ExpectedTokens(dec.records) ) =>
        /\ \A k \in 1..Len(dec.groups) : dec.groups[k][1] # Star
        /\ Len(dec.yielded) >= Len(BeforeTrailer(dec.records))

(***************************************************************************)
(* Claims C21 to C25, about the wire decoder                               *)
(***************************************************************************)

\* The blob is complete records, none of them a trailer, followed by one
\* record of fewer than 14 fields.
LastIncomplete(q) ==
    /\ Len(q) >= 1
    /\ Len(Recs[q[Len(q)]]) < 14
    /\ \A k \in 1..(Len(q) - 1) : Len(Recs[q[k]]) = 14 /\ IpField(q[k]) # Star

\* C21: parse_server_entry returns no record for the fewer than 14 tokens the
\* loop has accumulated; the call never ends with an exception; and when the
\* tokens of the blob are its fields and its last record is incomplete, the
\* call has yielded exactly the complete records before it, each decoded from
\* its own fields, in order.
C21_IncompleteDropped ==
    /\ dec.pc \in {"idle", "called", "loop", "done"}
    /\ ( dec.pc \in {"loop", "done"} /\ Len(dec.current_tokens) < 14 )
          => parse_server_entry(dec.current_tokens) = <<>>
    /\ ( /\ dec.pc = "done"
         /\ dec.all_tokens = ExpectedTokens(dec.records)
         /\ LastIncomplete(dec.records) )
          => /\ Len(dec.yielded) = Len(dec.records) - 1
             /\ \A k \in 1..Len(dec.yielded) :
                   <<dec.yielded[k]>> = parse_server_entry(FieldTexts(Recs[dec.records[k]]))

\* C21 witness: a complete record followed by an incomplete one has been
\* decoded: one record was yielded and the tokens of the incomplete record
\* were left over.
C21_Witness ==
    /\ dec.pc = "done"
    /\ Len(dec.records) = 2 /\ LastIncomplete(dec.records)
    /\ dec.all_tokens = ExpectedTokens(dec.records)
    /\ Len(dec.yielded) = 1 /\ dec.yielded[1].is_started
    /\ Len(dec.current_tokens) \in 1..13
    /\ dec.current_tokens[1] = Zero

\* The positions (from 1) of the numeric fields of a record, and of its
\* quoted fields.
NumericPositions == {2, 4, 5, 6, 7, 10, 11, 12, 14}

TextPositions == {3, 8, 9, 13}

\* The decoded field of server y that position p of the record gives.
DecodedField(y, p) ==
    CASE p = 2  -> y.port
      [] p = 3  -> y.match_name
      [] p = 4  -> y.game_info
      [] p = 5  -> y.max_ping
      [] p = 6  -> y.elo
      [] p = 7  -> y.nb_game
      [] p = 8  -> y.tag_line
      [] p = 9  -> y.score
      [] p = 10 -> y.other_elo
      [] p = 11 -> y.give_up_rate
      [] p = 12 -> y.reputation
      [] p = 13 -> y.surface_name
      [] p = 14 -> y.creation_time_ms

\* The token is a run of hexadecimal digits.
IsPlainHex(t) == Len(t) > 0 /\ \A i \in 1..Len(t) : t[i] \in HexChars

\* The token holds a character that no hexadecimal literal can hold.
NotHex(t) ==
    \E i \in 1..Len(t) :
        t[i] \notin HexChars \cup WhiteSpace \cup {"_", "+", "-", "x", "X"}

\* The number a numeric field token stands for: the value of its digits, and
\* 0 when it is not hexadecimal.
FieldNumber(t) == IF NotHex(t) THEN 0 ELSE DigitsValue(t, 16)

\* Every record of the blob has 14 fields, the first of them 0, and every
\* numeric field is a run of hexadecimal digits or not hexadecimal at all.
StartedRecords(q) ==
    \A k \in 1..Len(q) :
        /\ Len(Recs[q[k]]) = 14 /\ IpField(q[k]) = Zero
        /\ \A p \in NumericPositions : IsPlainHex(Recs[q[k]][p].t) \/ NotHex(Recs[q[k]][p].t)

\* C22: when the tokens of the blob are its fields and its records are
\* started records of 14 fields, every record is yielded, in order; a numeric
\* field whose token is not hexadecimal is 0, every other numeric field is
\* the number of its token, and the text fields are the tokens.
C22_BadHexIsZero ==
    ( /\ dec.pc = "done"
      /\ dec.all_tokens = ExpectedTokens(dec.records)
      /\ StartedRecords(dec.records) )
      => /\ Len(dec.yielded) = Len(dec.records)
         /\ \A k \in 1..Len(dec.yielded) :
               /\ \A p \in NumericPositions \ {4} :
                     DecodedField(dec.yielded[k], p) = FieldNumber(Recs[dec.records[k]][p].t)
               /\ dec.yielded[k].game_info =
                     parse_game_info_bitfield(FieldNumber(Recs[dec.records[k]][4].t))
               /\ \A p \in TextPositions :
                     DecodedField(dec.yielded[k], p) = Recs[dec.records[k]][p].t

\* C22 witness: the record whose max_ping, give_up_rate and reputation are
\* not hexadecimal was decoded with 0 in these fields and its port intact,
\* and the record after it was decoded too.
C22_Witness ==
    /\ dec.pc = "done"
    /\ Len(dec.records) = 2 /\ Len(dec.yielded) = 2
    /\ Recs[dec.records[1]] = RecBH
    /\ NotHex(RecBH[5].t) /\ dec.yielded[1].max_ping = 0
    /\ dec.yielded[1].give_up_rate = 0 /\ dec.yielded[1].reputation = 0
    /\ dec.yielded[1].port = DigitsValue(RecBH[2].t, 16) /\ dec.yielded[1].port > 0
    /\ dec.yielded[2].match_name = RecAB[3].t

(***************************************************************************)
(* parse_game_info_bitfield on its own: the calls with a word of the wire  *)
(***************************************************************************)

\* The words handed to parse_game_info_bitfield: every sub-field at its
\* least and its greatest value (player_config also at 3 and 4, the last
\* defined value and the first undefined one), the empty bits 9 to 17, the
\* unused bit 21 and the bits 28 to 30 above the layout all clear or all set.
\* Bit 31 stays clear: the model's integers end at 2^31 - 1.
BitValues ==
    { trial + 4 * player_cfg + 32 * nb_set + 128 * skill_mode + 512 * empty
        + 262144 * games_per_set + 2097152 * unused + 4194304 * control_mode
        + 16777216 * preview + 134217728 * tiredness + 268435456 * above :
        trial \in {0, 3}, player_cfg \in {0, 3, 4, 7}, nb_set \in {0, 3},
        skill_mode \in {0, 3}, empty \in {0, 511}, games_per_set \in {0, 7},
        unused \in {0, 1}, control_mode \in {0, 3}, preview \in {0, 7},
        tiredness \in {0, 1}, above \in {0, 7} }

\* A call of parse_game_info_bitfield with one of the words.
InitBits ==
    /\ fm_rows = {}
    /\ ds_rows = {}
    /\ sess = [c \in Ctx |-> IdleSession]
    /\ scope = [c \in Ctx |-> {}]
    /\ previous_matches = {}
    /\ frame = [c \in Ctx |-> IdleFrame]
    /\ clock = 1
    /\ dec = IdleDecoder
    /\ hub = IdleHub
    /\ mgr = IdleManager
    /\ \E value \in BitValues : gi = [IdleBits EXCEPT !.pc = "called", !.value = value]

\* The call returns the GameInfo.
DecodeBits ==
    /\ gi.pc = "called"
    /\ gi' = [gi EXCEPT !.pc = "done", !.game_info = parse_game_info_bitfield(gi.value)]
    /\ UNCHANGED <<fm_rows, ds_rows, sess, scope, previous_matches, frame, clock, dec, hub, mgr>>

NextBits == DecodeBits

SpecBits == InitBits /\ [][NextBits]_vars

\* Bit k of word x.
BitAt(x, k) == (x \div (2 ^ k)) % 2

\* The number written in the `width` bits of x from bit `low` upwards
\* (width 1 to 3).
FieldBits(x, low, width) ==
    BitAt(x, low)
      + (IF width >= 2 THEN 2 * BitAt(x, low + 1) ELSE 0)
      + (IF width >= 3 THEN 4 * BitAt(x, low + 2) ELSE 0)

\* C23: every call of parse_game_info_bitfield returns a GameInfo, with trial
\* the bits 0-1 of the word, player_config taken from bits 2-4, nb_set the
\* bits 5-6, skill_mode taken from bits 7-8, games_per_set the bits 18-20,
\* control_mode taken from bits 22-23, preview the bits 24-26 and tiredness
\* bit 27, each within the range of its width (the enums within 0..3).
C23_BitfieldTotal ==
    /\ gi.pc \in {"idle", "called", "done"}
    /\ gi.pc = "done" =>
          LET x == gi.value
              g == gi.game_info
          IN  /\ g.trial = FieldBits(x, 0, 2) /\ g.trial \in 0..3
              /\ g.player_config \in {FieldBits(x, 2, 3), 0} /\ g.player_config \in 0..3
              /\ FieldBits(x, 2, 3) \in 0..3 => g.player_config = FieldBits(x, 2, 3)
              /\ g.nb_set = FieldBits(x, 5, 2) /\ g.nb_set \in 0..3
              /\ g.skill_mode = FieldBits(x, 7, 2) /\ g.skill_mode \in 0..3
              /\ g.games_per_set = FieldBits(x, 18, 3) /\ g.games_per_set \in 0..7
              /\ g.control_mode = FieldBits(x, 22, 2) /\ g.control_mode \in 0..3
              /\ g.preview = FieldBits(x, 24, 3) /\ g.preview \in 0..7
              /\ g.tiredness = (BitAt(x, 27) = 1)

\* C23 witness: a word with every bit up to bit 30 set has been decoded, to
\* the greatest value of each plain sub-field.
C23_Witness ==
    /\ gi.pc = "done"
    /\ gi.value = 2147483647
    /\ gi.game_info.trial = 3
    /\ gi.game_info.nb_set = 3
    /\ gi.game_info.games_per_set = 7
    /\ gi.game_info.preview = 7
    /\ gi.game_info.tiredness

\* The defined values of PlayerConfig, SkillMode and ControlMode.
EnumValues == 0..3

ValidGroup(g) ==
    /\ Len(g) = 14
    /\ \A p \in NumericPositions : IsPlainHex(g[p])

\* C25: every record yielded from a valid group of 14 tokens has the group's
\* first token as its ip, and its port and every other integer field
\* (max_ping, elo, nb_game, other_elo, give_up_rate, reputation,
\* creation_time_ms) equal to the number its hexadecimal token denotes.
C25_RoundTrip ==
    dec.pc = "done" =>
        \A k \in 1..Len(dec.groups) :
            ValidGroup(dec.groups[k]) =>
                /\ dec.yielded[k].ip = dec.groups[k][1]
                /\ \A p \in NumericPositions \ {4} :
                      DecodedField(dec.yielded[k], p) = DigitsValue(dec.groups[k][p], 16)

(***************************************************************************)
(* SpecMode: worker processes that call the aggregator with matches of     *)
(* every mod and format                                                    *)
(***************************************************************************)

\* 0 1F90 "A vs B" 0 64 5DC 6 "WTSL 1" "6/4 7/5" 5DC 0 0 "Clay" 100
\* (wtsl in capitals, nb_set 0)
WireWtslBo1 ==
    <<"0", " ", "1", "F", "9", "0", " ", "\"", "A", " ", "v", "s", " ", "B", "\"", " ", "0", " ", "6", "4", " ", "5", "D", "C", " ", "6", " ", "\"", "W", "T", "S", "L", " ", "1", "\"", " ", "\"", "6", "/", "4", " ", "7", "/", "5", "\"", " ", "5", "D", "C", " ", "0", " ", "0", " ", "\"", "C", "l", "a", "y", "\"", " ", "1", "0", "0">>

\* 0 1F91 "C vs D" 20 64 5DC 6 "xkt WtSl" "6/4 7/5" 5DC 0 0 "Clay" 100
\* (both mods named, nb_set 1)
WireBothBo1 ==
    <<"0", " ", "1", "F", "9", "1", " ", "\"", "C", " ", "v", "s", " ", "D", "\"", " ", "2", "0", " ", "6", "4", " ", "5", "D", "C", " ", "6", " ", "\"", "x", "k", "t", " ", "W", "t", "S", "l", "\"", " ", "\"", "6", "/", "4", " ", "7", "/", "5", "\"", " ", "5", "D", "C", " ", "0", " ", "0", " ", "\"", "C", "l", "a", "y", "\"", " ", "1", "0", "0">>

\* 0 1F90 "A vs B" 40 64 5DC 6 "XKT v4" "6/4 7/5" 5DC 0 0 "Clay" 100
\* (xkt, nb_set 2)
WireXktBo3 ==
    <<"0", " ", "1", "F", "9", "0", " ", "\"", "A", " ", "v", "s", " ", "B", "\"", " ", "4", "0", " ", "6", "4", " ", "5", "D", "C", " ", "6", " ", "\"", "X", "K", "T", " ", "v", "4", "\"", " ", "\"", "6", "/", "4", " ", "7", "/", "5", "\"", " ", "5", "D", "C", " ", "0", " ", "0", " ", "\"", "C", "l", "a", "y", "\"", " ", "1", "0", "0">>

\* 0 1F91 "C vs D" 60 64 5DC 6 "v1" "6/4 7/5" 5DC 0 0 "Clay" 100
\* (no mod named, nb_set 3)
WireVanillaBo5 ==
    <<"0", " ", "1", "F", "9", "1", " ", "\"", "C", " ", "v", "s", " ", "D", "\"", " ", "6", "0", " ", "6", "4", " ", "5", "D", "C", " ", "6", " ", "\"", "v", "1", "\"", " ", "\"", "6", "/", "4", " ", "7", "/", "5", "\"", " ", "5", "D", "C", " ", "0", " ", "0", " ", "\"", "C", "l", "a", "y", "\"", " ", "1", "0", "0">>

\* The calls of the workers: the records the decoder yields for them (two
\* matches, each seen with two tag lines and two formats), each with a day.
ModeCalls ==
    { <<parse_server_data(WireWtslBo1)[1], 2>>, <<parse_server_data(WireBothBo1)[1], 1>>,
      <<parse_server_data(WireXktBo3)[1], 1>>, <<parse_server_data(WireVanillaBo5)[1], 2>> }

NextMode ==
    \E c \in Ctx :
        \/ \E call \in ModeCalls : CallFinish(c, call[1], call[2])
        \/ FlushFM(c)
        \/ EnsureSelect(c)
        \/ EnsureInsert(c)
        \/ UpdateCounters(c)
        \/ Commit(c)
        \/ Fault(c)
        \/ Return(c)

SpecMode == Init /\ [][NextMode]_vars

\* word occurs in tag, letters compared without regard to case.
NamesMod(tag, word) ==
    \E k \in 1..Len(tag) :
        /\ k + Len(word) - 1 <= Len(tag)
        /\ \A j \in 1..Len(word) : LowerChar(tag[k + j - 1]) = word[j]

\* The counter of column col in the committed row of day d of rows, 0 when
\* the day has no row.
RECURSIVE CounterOf(_, _, _, _)
CounterOf(rows, i, d, col) ==
    IF i > Len(rows) THEN 0
    ELSE (IF rows[i].stats_date = d THEN rows[i].c[col] ELSE 0) + CounterOf(rows, i + 1, d, col)

\* Worker c commits and returns True in this step.
Succeeds(c) == sess[c].pc = "commit" /\ sess'[c].pc = "returned" /\ sess'[c].ret

\* C26: the step in which a finish call commits and returns True adds
\* exactly 1 to the counters {mod}_total and {mod}_{format} of its day and
\* leaves every other counter of that day and every counter of every other
\* day as it was, where mod is wtsl if the tag line names wtsl in any case,
\* else xkt if it names xkt, else vanilla, and format is bo1 for nb_set 0 or
\* 1, bo3 for 2 and bo5 for 3; and no other step changes a counter.
C26_TwoCountersPerFinish ==
    [][ /\ \A c \in Ctx :
              Succeeds(c) =>
                  LET server == sess[c].server[1]
                      nb_set == server.game_info.nb_set
                      mod == IF NamesMod(server.tag_line, <<"w", "t", "s", "l">>) THEN "wtsl"
                             ELSE IF NamesMod(server.tag_line, <<"x", "k", "t">>) THEN "xkt"
                             ELSE "vanilla"
                      format == IF nb_set \in {0, 1} THEN "bo1"
                                ELSE IF nb_set = 2 THEN "bo3" ELSE "bo5"
                  IN  \A d \in Days : \A col \in Columns :
                          CounterOf(ds_rows', 1, d, col) =
                              CounterOf(ds_rows, 1, d, col)
                                + (IF d = sess[c].date_obj
                                      /\ col \in {<<mod, "total">>, <<mod, format>>}
                                   THEN 1 ELSE 0)
        /\ (\A c \in Ctx : ~Succeeds(c)) =>
              \A d \in Days : \A col \in Columns :
                  CounterOf(ds_rows', 1, d, col) = CounterOf(ds_rows, 1, d, col) ]_vars

\* C26 witness: the day 2 holds one wtsl match played as bo1 and one vanilla
\* match played as bo5 and nothing else, and day 1 has its row.
C26_Witness ==
    /\ \A col \in Columns :
          CounterOf(ds_rows, 1, 2, col) =
              IF col \in {<<"wtsl", "total">>, <<"wtsl", "bo1">>,
                          <<"vanilla", "total">>, <<"vanilla", "bo5">>}
              THEN 1 ELSE 0
    /\ DayRows(1) = 1

(***************************************************************************)
(* SpecWinner: worker processes that call the aggregator with the names    *)
(* and scores a winner is deduced from                                     *)
(***************************************************************************)

\* 0 1F90 "<name>" 40 64 5DC 6 "XKT v4" "<score>" 5DC 0 0 "Clay" 100
WinnerHead == <<"0", " ", "1", "F", "9", "0", " ", "\"">>

WinnerMid ==
    <<"\"", " ", "4", "0", " ", "6", "4", " ", "5", "D", "C", " ", "6", " ", "\"", "X", "K", "T", " ", "v", "4", "\"", " ", "\"">>

\* The names and scores of the matches, each with the winner the rule of C27
\* names for it:
\*   'A vs B', '6/4 7/5': A (two sets to none)
\*   'A vs B', '4/6 6/7(3)': B (two sets to none for the second player, a tiebreak in parentheses)
\*   'A vs B', '7/6(5) 6/7(4) 1/0': A (sets level, the first player ahead in the last set)
\*   'A vs B', '6/4 4/6 1/2 -- 15:0': B (sets level, the second player ahead in the last set, a live point dropped)
\*   'A vs B', '6/4 4/6': B (sets level, the last set is the second player's)
\*   'A vs B', '6/4 4/6 3/3': none (sets level and last set level)
\*   'A vs B', '6/4 2/1 x': A (a token without a slash is no set)
\*   'Solo', '6/4 7/5': none (no " vs " in the name)
WinnerCases ==
    { <<<<"A", " ", "v", "s", " ", "B">>,
         <<"6", "/", "4", " ", "7", "/", "5">>,
         SomeName(<<"A">>)>>,
      <<<<"A", " ", "v", "s", " ", "B">>,
         <<"4", "/", "6", " ", "6", "/", "7", "(", "3", ")">>,
         SomeName(<<"B">>)>>,
      <<<<"A", " ", "v", "s", " ", "B">>,
         <<"7", "/", "6", "(", "5", ")", " ", "6", "/", "7", "(", "4", ")", " ", "1", "/", "0">>,
         SomeName(<<"A">>)>>,
      <<<<"A", " ", "v", "s", " ", "B">>,
         <<"6", "/", "4", " ", "4", "/", "6", " ", "1", "/", "2", " ", "-", "-", " ", "1", "5", ":", "0">>,
         SomeName(<<"B">>)>>,
      <<<<"A", " ", "v", "s", " ", "B">>,
         <<"6", "/", "4", " ", "4", "/", "6">>,
         SomeName(<<"B">>)>>,
      <<<<"A", " ", "v", "s", " ", "B">>,
         <<"6", "/", "4", " ", "4", "/", "6", " ", "3", "/", "3">>,
         NoName>>,
      <<<<"A", " ", "v", "s", " ", "B">>,
         <<"6", "/", "4", " ", "2", "/", "1", " ", "x">>,
         SomeName(<<"A">>)>>,
      <<<<"S", "o", "l", "o">>,
         <<"6", "/", "4", " ", "7", "/", "5">>,
         NoName>> }

\* The record the decoder yields for a name and a score.
WinnerServer(name, score) ==
    parse_server_data(WinnerHead \o name \o WinnerMid \o score \o ScoreTail)[1]

WinnerServers == { WinnerServer(wc[1], wc[2]) : wc \in WinnerCases }

NextWinner ==
    \E c \in Ctx :
        \/ \E server \in WinnerServers : CallFinish(c, server, clock)
        \/ FlushFM(c)
        \/ EnsureSelect(c)
        \/ EnsureInsert(c)
        \/ UpdateCounters(c)
        \/ Commit(c)
        \/ Fault(c)
        \/ Return(c)

SpecWinner == Init /\ [][NextWinner]_vars

\* The winner the rule names for the match of a record.
RuledWinner(server) ==
    (CHOOSE wc \in WinnerCases : WinnerServer(wc[1], wc[2]) = server)[3]

\* C27: the FinishedMatch row a call commits carries the winner the rule
\* names for its match name and score: the player with more sets, the sets
\* being the slash-separated pairs of the normalized score with the tiebreak
\* parentheses left out; with sets level, the player with more games in the
\* last set; no winner when the name has no " vs " or everything is level.
\* "6/4 7/5" with "A vs B" gives "A".
C27_WinnerDeduced ==
    [][ \A c \in Ctx :
          ( sess[c].pc = "commit" /\ sess'[c].kind = "true" ) =>
              \A r \in AddedRows : r.winner = RuledWinner(sess[c].server[1]) ]_vars

\* C27 witness: the store holds the row of "A vs B" with a score of level
\* sets and the winner taken from the last set, beside the row of a match
\* without " vs ", which has no winner.
C27_Witness ==
    /\ \E r \in BagToSet(fm_rows) :
          /\ r.score = <<"6", "/", "4", " ", "4", "/", "6", " ", "1", "/", "2">>
          /\ r.winner = SomeName(<<"B">>)
    /\ \E r \in BagToSet(fm_rows) : r.match_name = <<"S", "o", "l", "o">> /\ r.winner = NoName

(***************************************************************************)
(* Claims C28 and C29, about the rows of the store (Spec)                  *)
(***************************************************************************)

\* C28: no day ever has more than one daily_stats row; a step that gives a
\* day its row is the commit of a call on that day that had added its
\* FinishedMatch row and gone on to _ensure_daily_record; and no step makes
\* a counter of any day smaller.
C28_OneRowPerDayMonotone ==
    /\ [](\A d \in Days : DayRows(d) <= 1)
    /\ [][ /\ \A d \in Days :
                 DayRows(d)' > DayRows(d) =>
                     \E c \in Ctx : /\ sess[c].pc = "commit" /\ sess'[c].kind = "true"
                                    /\ sess[c].date_obj = d
                                    /\ sess[c].tried_create
           /\ \A d \in Days : \A col \in Columns :
                 CounterOf(ds_rows', 1, d, col) >= CounterOf(ds_rows, 1, d, col) ]_vars

\* C28 witness: two calls on the same day that both found no row and tried
\* to create it have returned True; the day has one row, with both matches
\* counted.
C28_Witness ==
    /\ \E c1, c2 \in Ctx :
          /\ c1 # c2
          /\ sess[c1].pc = "returned" /\ sess[c1].kind = "true" /\ sess[c1].tried_create
          /\ sess[c2].pc = "returned" /\ sess[c2].kind = "true" /\ sess[c2].tried_create
          /\ sess[c1].date_obj = sess[c2].date_obj
          /\ DayRows(sess[c1].date_obj) = 1
          /\ SumTotals(sess[c1].date_obj) = 2

\* The read operations of the service: get_today_stats_async, get_history,
\* get_monthly_stats_async and get_top_players_async.
Queries == {"today_stats", "history", "monthly_stats", "top_players"}

\* A worker runs one of them: each opens a session, runs one SELECT on
\* daily_stats or finished_matches and closes the session; nothing is added
\* to the session and nothing is committed.
Query(c, op) ==
    /\ sess[c].pc = "idle"
    /\ sess' = [sess EXCEPT ![c] = [IdleSession EXCEPT !.pc = "returned", !.kind = op]]
    /\ UNCHANGED <<fm_rows, ds_rows, scope, previous_matches, frame, clock, dec, gi, hub, mgr>>

NextStore ==
    \E c \in Ctx :
        \/ \E server \in FinishServers, d \in Days : CallFinish(c, server, d)
        \/ \E op \in Queries : Query(c, op)
        \/ FlushFM(c)
        \/ EnsureSelect(c)
        \/ EnsureInsert(c)
        \/ UpdateCounters(c)
        \/ Commit(c)
        \/ Fault(c)
        \/ Return(c)

SpecStore == Init /\ [][NextStore]_vars

\* C29: no two committed finished_matches rows share a match_id, and every
\* step of a finish call or of a read operation leaves every committed row
\* in the store as it was written, match_id, date, match_name, score and
\* winner.
C29_RowsNeverChange ==
    /\ [](\A r \in BagToSet(fm_rows) : FmCount(r.match_id) = 1)
    /\ [][ \A r \in BagToSet(fm_rows) :
              /\ r \in BagToSet(fm_rows')
              /\ CopiesIn(r, fm_rows') >= CopiesIn(r, fm_rows) ]_vars

\* C29 witness: the store holds the rows of two matches while one worker has
\* returned from the top players query and the other from a second call on
\* a match that has its row.
C29_Witness ==
    /\ BagCardinality(fm_rows) = 2
    /\ \E c1, c2 \in Ctx :
          /\ sess[c1].pc = "returned" /\ sess[c1].kind = "top_players"
          /\ sess[c2].pc = "returned" /\ sess[c2].kind = "integrity"

(***************************************************************************)
(* SpecHub: the poll loop, its update signal and the websocket handlers of *)
(* one process.  start_polling, wait_for_update and get_latest_data are    *)
(* called by main.py and live_scores.py; their bodies follow the           *)
(* specification's section 4.4.                                            *)
(***************************************************************************)

\* The fields of the store and of the services stay as they are.
HubOnly == UNCHANGED <<fm_rows, ds_rows, sess, scope, previous_matches, frame, clock, dec, gi, mgr>>

\* The poll loop wakes from its sleep and begins a cycle.
PollBegin ==
    /\ hub.poll = "sleeping"
    /\ hub' = [hub EXCEPT !.poll = "fetching", !.cycle = 1 - @,
                  !.ws = [h \in Handlers |-> [hub.ws[h] EXCEPT !.woken = FALSE]]]
    /\ HubOnly

\* (mutant) the signal leaves the waiters registered.
PollSucceeds_KeepWaiters ==
    /\ hub.poll = "fetching"
    /\ hub' = [hub EXCEPT !.poll = "sleeping",
                  !.ws = [h \in Handlers |->
                             IF h \in hub.waiting
                             THEN [hub.ws[h] EXCEPT !.update_task = "done", !.woken = TRUE]
                             ELSE hub.ws[h]]]
    /\ HubOnly

\* The cycle ends with a new snapshot: it is stored as the latest and the
\* parties waiting are signalled, each once, and are no longer registered.
PollSucceeds ==
    /\ hub.poll = "fetching"
    /\ hub' = [hub EXCEPT !.poll = "sleeping", !.waiting = {},
                  !.ws = [h \in Handlers |->
                             IF h \in hub.waiting
                             THEN [hub.ws[h] EXCEPT !.update_task = "done", !.woken = TRUE]
                             ELSE hub.ws[h]]]
    /\ HubOnly

\* The fetch fails: the cycle ends early and nobody is signalled.
PollFails ==
    /\ hub.poll = "fetching"
    /\ hub' = [hub EXCEPT !.poll = "sleeping"]
    /\ HubOnly

\* The task around wait_for_update() begins to run: the party is registered.
TaskStart(h) ==
    /\ hub.ws[h].update_task = "created"
    /\ hub' = [hub EXCEPT !.ws[h].update_task = "registered", !.waiting = @ \cup {h}]
    /\ HubOnly

\* websocket_live_scores, lines 171-191: the connection is accepted, the two
\* tasks are created and the latest data is sent.
Connect(h) ==
    /\ hub.ws[h].pc \in {"new", "closed"}
    /\ hub' = [hub EXCEPT !.ws[h] = [pc |-> "wait", update_task |-> "created", woken |-> FALSE]]
    /\ HubOnly

\* Lines 196-207: asyncio.wait returns with update_task done; the handler
\* creates a new task around wait_for_update() and sends the latest data.
HandleUpdate(h) ==
    /\ hub.ws[h].pc = "wait"
    /\ hub.ws[h].update_task = "done"
    /\ hub' = [hub EXCEPT !.ws[h].pc = "sending", !.ws[h].update_task = "created"]
    /\ HubOnly

\* Line 207: send_text returns, however late; the loop goes back to
\* asyncio.wait.
SendDone(h) ==
    /\ hub.ws[h].pc = "sending"
    /\ hub' = [hub EXCEPT !.ws[h].pc = "wait"]
    /\ HubOnly

\* Lines 229-247: the client is gone (receive_text or send_text raises); the
\* handler leaves the loop and cancels the tasks that are not done.
Disconnect(h) ==
    /\ hub.ws[h].pc \in {"wait", "sending"}
    /\ hub' = [hub EXCEPT !.ws[h].pc = "closed",
                  !.ws[h].update_task = IF @ = "done" THEN @ ELSE "cancelled",
                  !.waiting = @ \ {h}]
    /\ HubOnly

PollNext == PollBegin \/ PollSucceeds \/ PollFails

NextHub ==
    \/ PollBegin
    \/ PollSucceeds
    \/ PollFails
    \/ \E h \in Handlers :
          \/ TaskStart(h)
          \/ Connect(h)
          \/ HandleUpdate(h)
          \/ SendDone(h)
          \/ Disconnect(h)

\* The poll loop is a task of its own and is always scheduled again; nothing
\* is required of the handlers and their clients.
SpecHub == Init /\ [][NextHub]_vars /\ WF_vars(PollNext)

\* The wait of handler h is ended by the signal in this step.
Woken(h) == hub.ws[h].update_task # "done" /\ hub'.ws[h].update_task = "done"

\* C30: a party is woken only when it is registered, at most once in a poll
\* cycle, and being woken ends its registration; it is registered again only
\* by a new wait_for_update task of its own; and whatever the handlers do or
\* fail to do (a slow send, a lost client), the poll loop goes on beginning
\* and ending cycles.
C30_WokenOncePerCycle ==
    /\ [][ \A h \in Handlers :
              /\ Woken(h) => /\ hub.ws[h].update_task = "registered"
                             /\ h \in hub.waiting
                             /\ h \notin hub'.waiting
                             /\ ~hub.ws[h].woken
              /\ ( h \notin hub.waiting /\ h \in hub'.waiting )
                    => hub.ws[h].update_task = "created" ]_vars
    /\ []<>(hub.cycle = 0 /\ hub.poll = "fetching")
    /\ []<>(hub.cycle = 1 /\ hub.poll = "sleeping")

\* C30 witness: a cycle has signalled both parties; one is still sending
\* the data of the cycle before, its new wait registered and now ended, the
\* other has lost its client after being woken.
C30_Witness ==
    /\ hub.poll = "sleeping"
    /\ \E h1, h2 \in Handlers :
          /\ hub.ws[h1].pc = "sending" /\ hub.ws[h1].update_task = "done" /\ hub.ws[h1].woken
          /\ hub.ws[h2].pc = "closed" /\ hub.ws[h2].update_task = "done" /\ hub.ws[h2].woken
    /\ hub.waiting = {}

(***************************************************************************)
(* Claim C39, about the bits parse_game_info_bitfield reads (SpecBits)     *)
(***************************************************************************)

\* Word x with the empty bits 9 to 17, the unused bit 21 and the bits from 28
\* upwards cleared.
LayoutBits(x) ==
    x - 512 * ((x \div 512) % 512) - 2097152 * BitAt(x, 21)
      - 268435456 * (x \div 268435456)

\* Settings of the bits outside the layout: bits 9 to 17, bit 21, bits 28 to 30.
OutsideLayout ==
    { 512 * empty + 2097152 * unused + 268435456 * above :
        empty \in {0, 1, 256, 511}, unused \in {0, 1}, above \in {0, 1, 4, 7} }

\* C39: every word that differs from a decoded word only in the empty bits
\* 9 to 17, the unused bit 21 or the bits from 28 upwards decodes to the
\* GameInfo the call returned.
C39_ReservedBitsIgnored ==
    gi.pc = "done" =>
        \A r \in OutsideLayout :
            parse_game_info_bitfield(LayoutBits(gi.value) + r) = gi.game_info

\* C39 witness: a word with all bits outside the layout set has been decoded
\* to a GameInfo with some sub-field not 0.
C39_Witness ==
    /\ gi.pc = "done"
    /\ gi.value - LayoutBits(gi.value) = 511 * 512 + 2097152 + 7 * 268435456
    /\ gi.game_info.games_per_set = 7
    /\ gi.game_info.control_mode = 3
    /\ parse_game_info_bitfield(LayoutBits(gi.value)) = gi.game_info

(***************************************************************************)
(* Claim C34, about the counters of a row (SpecMode)                       *)
(***************************************************************************)

\* C34: in every committed daily_stats row and for every mod, {mod}_total
\* is the sum of {mod}_bo1, {mod}_bo3 and {mod}_bo5.
C34_TotalIsSumOfFormats ==
    \A i \in 1..Len(ds_rows) : \A mod \in Mods :
        ds_rows[i].c[<<mod, "total">>] =
            ds_rows[i].c[<<mod, "bo1">>] + ds_rows[i].c[<<mod, "bo3">>]
              + ds_rows[i].c[<<mod, "bo5">>]

\* C34 witness: one committed row counts a wtsl match played as bo1 and a
\* vanilla match played as bo5.
C34_Witness ==
    \E i \in 1..Len(ds_rows) :
        /\ ds_rows[i].c[<<"wtsl", "total">>] = 1 /\ ds_rows[i].c[<<"wtsl", "bo1">>] = 1
        /\ ds_rows[i].c[<<"vanilla", "total">>] = 1 /\ ds_rows[i].c[<<"vanilla", "bo5">>] = 1

(***************************************************************************)
(* SpecRestart: the one-task process of SpecRepeat, which may stop and be  *)
(* started again                                                           *)
(***************************************************************************)

\* (mutant) the new process has the snapshot of the old one.
Restart_KeepsSnapshot(t) ==
    /\ frame[t].pc # "started"
    /\ frame' = [frame EXCEPT ![t] = [IdleFrame EXCEPT !.pc = "started"]]
    /\ sess' = [sess EXCEPT ![t] = IdleSession]
    /\ UNCHANGED previous_matches
    /\ UNCHANGED <<fm_rows, ds_rows, scope, clock, dec, gi, hub, mgr>>

\* The process ends, wherever its task is, and a new one is created: its
\* StatsService is constructed with an empty _previous_matches (line 43), and
\* the transaction the old process had open is rolled back by the database.
Restart(t) ==
    /\ frame[t].pc # "started"
    /\ frame' = [frame EXCEPT ![t] = [IdleFrame EXCEPT !.pc = "started"]]
    /\ sess' = [sess EXCEPT ![t] = IdleSession]
    /\ previous_matches' = EmptyMap
    /\ UNCHANGED <<fm_rows, ds_rows, scope, clock, dec, gi, hub, mgr>>

\* lifespan, lines 51-62: the new process starts polling.
Boot(t) ==
    /\ frame[t].pc = "started"
    /\ frame' = [frame EXCEPT ![t] = IdleFrame]
    /\ UNCHANGED <<fm_rows, ds_rows, sess, scope, previous_matches, clock, dec, gi, hub, mgr>>

NextRestart ==
    \/ Fetch(Poller)
    \/ \E L \in RepeatListings : Receive(Poller, L)
    \/ FetchFails(Poller)
    \/ FlushFM(Poller)
    \/ EnsureSelect(Poller)
    \/ EnsureInsert(Poller)
    \/ UpdateCounters(Poller)
    \/ Commit(Poller)
    \/ Fault(Poller)
    \/ FinishReturn(Poller)
    \/ EndCycle(Poller)
    \/ Restart(Poller)
    \/ Boot(Poller)

SpecRestart == Init /\ [][NextRestart]_vars

\* C37: a track_matches call that begins while the previous snapshot is
\* empty ends in the same step, with no match handed to the aggregator, a
\* finished count of 0 and the store and the session as they were; and a
\* process that has just started holds an empty previous snapshot, whatever
\* the process before it held.
C37_EmptyPreviousFinishesNothing ==
    [][ /\ ( /\ frame[Poller].pc = "fetching"
             /\ previous_matches = EmptyMap
             /\ frame'[Poller].ran )
            => /\ frame'[Poller].pc = "done"
               /\ frame'[Poller].handed = {}
               /\ frame'[Poller].finished_count = 0
               /\ ~frame'[Poller].raised
               /\ previous_matches' = frame'[Poller].current_matches
               /\ UNCHANGED <<fm_rows, ds_rows, sess>>
        /\ frame'[Poller].pc = "started" => previous_matches' = EmptyMap ]_vars

\* C37 witness: the store holds the row of a match finished before a
\* restart; the first track_matches call of the new process, on a listing
\* without that match, has ended with nothing finished.
C37_Witness ==
    /\ BagCardinality(fm_rows) = 1
    /\ frame[Poller].pc = "done"
    /\ frame[Poller].ran
    /\ frame[Poller].prev0 = EmptyMap
    /\ frame[Poller].current_matches # EmptyMap
    /\ frame[Poller].handed = {}
    /\ \A r \in BagToSet(fm_rows) : r.match_id \notin DOMAIN frame[Poller].current_matches

(***************************************************************************)
(* SpecManager: the ConnectionManager of one process and the handlers that *)
(* call it (live_scores.py lines 100-149, 172, 242)                        *)
(***************************************************************************)

ManagerOnly ==
    UNCHANGED <<fm_rows, ds_rows, sess, scope, previous_matches, frame, clock, dec, gi, hub>>

\* Remove(q, w): list.remove, the first occurrence of w taken out of q.
RECURSIVE Remove(_, _)
Remove(q, w) ==
    IF Len(q) = 0 THEN q
    ELSE IF Head(q) = w THEN Tail(q) ELSE <<Head(q)>> \o Remove(Tail(q), w)

\* w occurs in the list q.
InList(q, w) == \E k \in 1..Len(q) : q[k] = w

\* connect, lines 114-119: the capacity check; a full manager closes the
\* websocket, otherwise the call awaits websocket.accept().
ConnectCheck(w) ==
    /\ mgr.pc[w] = "new"
    /\ mgr' = [mgr EXCEPT !.pc[w] =
                 IF Len(mgr.active_connections) >= MAX_CONNECTIONS
                 THEN "rejected" ELSE "accepting"]
    /\ ManagerOnly

\* connect, lines 119-120: accept() has returned and the websocket is appended.
ConnectAppend(w) ==
    /\ mgr.pc[w] = "accepting"
    /\ mgr' = [mgr EXCEPT !.pc[w] = "connected",
                  !.active_connections = Append(@, w)]
    /\ ManagerOnly

\* accept() raises: the client went away during the handshake.
AcceptFails(w) ==
    /\ mgr.pc[w] = "accepting"
    /\ mgr' = [mgr EXCEPT !.pc[w] = "closed"]
    /\ ManagerOnly

\* disconnect, lines 129-130, called by the finally arm of the handler (line
\* 242), also for a websocket that was rejected or already removed.
ManagerDisconnect(w) ==
    /\ mgr.pc[w] \in {"connected", "rejected"}
    /\ mgr' = [mgr EXCEPT !.pc[w] = "closed",
                  !.active_connections = IF InList(@, w) THEN Remove(@, w) ELSE @]
    /\ ManagerOnly

\* A client comes back with a new websocket.
NewSocket(w) ==
    /\ mgr.pc[w] = "closed"
    /\ ~InList(mgr.active_connections, w)
    /\ mgr' = [mgr EXCEPT !.pc[w] = "new"]
    /\ ManagerOnly

\* broadcast, lines 140-141: the call begins.
BroadcastBegin ==
    /\ mgr.bc = "idle"
    /\ mgr' = [mgr EXCEPT !.bc = "sending", !.disconnected = {}]
    /\ ManagerOnly

\* broadcast, lines 142-145: send_text to a connection raises.
BroadcastSendFails(w) ==
    /\ mgr.bc = "sending"
    /\ InList(mgr.active_connections, w)
    /\ w \notin mgr.disconnected
    /\ mgr' = [mgr EXCEPT !.disconnected = @ \cup {w}]
    /\ ManagerOnly

\* The connections of q that are not in D.
RECURSIVE Without(_, _)
Without(q, D) ==
    IF Len(q) = 0 THEN q
    ELSE IF Head(q) \in D THEN Without(Tail(q), D) ELSE <<Head(q)>> \o Without(Tail(q), D)

\* broadcast, lines 147-149: the loop has ended; the connections whose send
\* failed are removed.
BroadcastEnd ==
    /\ mgr.bc = "sending"
    /\ mgr' = [mgr EXCEPT !.bc = "idle", !.disconnected = {},
                  !.active_connections = Without(@, mgr.disconnected)]
    /\ ManagerOnly

NextManager ==
    \/ BroadcastBegin
    \/ BroadcastEnd
    \/ \E w \in Sockets :
          \/ ConnectCheck(w)
          \/ ConnectAppend(w)
          \/ AcceptFails(w)
          \/ ManagerDisconnect(w)
          \/ NewSocket(w)
          \/ BroadcastSendFails(w)

SpecManager == Init /\ [][NextManager]_vars

\* C38: active_connections never holds more than MAX_CONNECTIONS websockets.
C38_NeverExceedsMax == Len(mgr.active_connections) <= MAX_CONNECTIONS

(***************************************************************************)
(* SpecRead: worker processes that finish matches and read the statistics  *)
(***************************************************************************)

\* DailyStats.to_dict: the date and the twelve counters of a row.
to_dict(row) == [ date |-> row.stats_date, c |-> row.c ]

\* ORDER BY stats_date DESC over the rows.
RECURSIVE OrderByDateDesc(_)
OrderByDateDesc(rows) ==
    IF Len(rows) = 0 THEN <<>>
    ELSE LET k == CHOOSE i \in 1..Len(rows) :
                      \A j \in 1..Len(rows) : rows[j].stats_date <= rows[i].stats_date
         IN  <<rows[k]>> \o OrderByDateDesc(SubSeq(rows, 1, k - 1) \o SubSeq(rows, k + 1, Len(rows)))

\* LIMIT n
Limit(rows, n) == SubSeq(rows, 1, IF Len(rows) < n THEN Len(rows) ELSE n)

\* (mutant) the SELECT without its ORDER BY: the rows as the table holds them.
get_history_Unordered(rows, days) ==
    LET records == Limit(rows, days) IN
    [i \in 1..Len(records) |-> to_dict(records[i])]

\* StatsService.get_history, lines 371-377, on the committed rows.
get_history(rows, days) ==
    LET records == Limit(OrderByDateDesc(rows), days) IN
    [i \in 1..Len(records) |-> to_dict(records[i])]

\* StatsService.get_today_stats_async, lines 346-361, on the committed rows.
get_today_stats_async(rows, today) ==
    IF \E i \in 1..Len(rows) : rows[i].stats_date = today
    THEN to_dict(rows[CHOOSE i \in 1..Len(rows) : rows[i].stats_date = today])
    ELSE [ date |-> today, c |-> ZeroCounters ]

\* The session of a read call that has returned: what was asked, whether the
\* query raised, and the value returned.
Answer(op, days, raised, value) ==
    [ f \in DOMAIN IdleSession \cup {"days", "raised", "value"} |->
        CASE f = "pc"     -> "returned"
          [] f = "kind"   -> op
          [] f = "days"   -> days
          [] f = "raised" -> raised
          [] f = "value"  -> value
          [] OTHER        -> IdleSession[f] ]

\* The days a caller asks for (the endpoint admits 1 to 90).
HistoryDays == 1..MaxDay

\* GET /stats/history: get_history(days) returns the list, or [] when the
\* query raises.
GetHistory(c, days) ==
    /\ sess[c].pc = "idle"
    /\ \/ sess' = [sess EXCEPT ![c] = Answer("history", days, FALSE, get_history(ds_rows, days))]
       \/ sess' = [sess EXCEPT ![c] = Answer("history", days, TRUE, <<>>)]
    /\ UNCHANGED <<fm_rows, ds_rows, scope, previous_matches, frame, clock, dec, gi, hub, mgr>>

\* get_today_stats_async returns the row of today, the zeros when there is
\* none, or {} when the query raises.
GetTodayStats(c) ==
    /\ sess[c].pc = "idle"
    /\ \/ sess' = [sess EXCEPT ![c] =
                     Answer("today_stats", 0, FALSE, get_today_stats_async(ds_rows, clock))]
       \/ sess' = [sess EXCEPT ![c] = Answer("today_stats", 0, TRUE, <<>>)]
    /\ UNCHANGED <<fm_rows, ds_rows, scope, previous_matches, frame, clock, dec, gi, hub, mgr>>

NextRead ==
    \E c \in Ctx :
        \/ \E server \in FinishServers, d \in Days : CallFinish(c, server, d)
        \/ \E days \in HistoryDays : GetHistory(c, days)
        \/ GetTodayStats(c)
        \/ FlushFM(c)
        \/ EnsureSelect(c)
        \/ EnsureInsert(c)
        \/ UpdateCounters(c)
        \/ Commit(c)
        \/ Fault(c)
        \/ Return(c)

SpecRead == Init /\ [][NextRead]_vars

\* Worker c returns from the read operation op in this step.
Reads(c, op) == sess[c].pc = "idle" /\ sess'[c].pc = "returned" /\ sess'[c].kind = op

EmptyRecords == {2, 4, 9}

EmptyListings == {L \in Listings : L \subseteq EmptyRecords}

NextEmpty ==
    \/ Fetch(Poller)
    \/ \E L \in EmptyListings : Receive(Poller, L)
    \/ FetchFails(Poller)
    \/ FlushFM(Poller)
    \/ EnsureSelect(Poller)
    \/ EnsureInsert(Poller)
    \/ UpdateCounters(Poller)
    \/ Commit(Poller)
    \/ Fault(Poller)
    \/ FinishReturn(Poller)
    \/ EndCycle(Poller)

SpecEmpty == Init /\ [][NextEmpty]_vars

\* The decoded record list of the cycle that task t has just received.
NoneDecoded(fr) == fr.failed \/ Decoded[fr.listing] = <<>>

\* C35: the step in which fetch_servers receives an empty decoded list (the
\* fetch failed, the body was empty or the blob held no complete record) ends
\* the cycle without a track_matches call: the previous snapshot, the store
\* and the session stay as they were and nothing is handed to the
\* aggregator; a match is handed only in a cycle that ran track_matches on a
\* non-empty decoded list that does not hold its match_id, and a cycle that
\* ran to its end has handed every match of the previous snapshot that its
\* list does not hold, is not RENAMED and passes the validation.
C35_EmptyListSkipsTracker ==
    [][ /\ ( frame[Poller].pc = "fetching" /\ NoneDecoded(frame'[Poller]) )
              => /\ frame'[Poller].pc = "done" /\ ~frame'[Poller].ran
                 /\ ~frame'[Poller].raised
                 /\ frame'[Poller].handed = {}
                 /\ UNCHANGED <<previous_matches, fm_rows, ds_rows, sess>>
        /\ \A mid \in frame'[Poller].handed \ frame[Poller].handed :
              /\ frame'[Poller].ran
              /\ ~NoneDecoded(frame'[Poller])
              /\ mid \in DOMAIN frame'[Poller].prev0
              /\ mid \notin DOMAIN frame'[Poller].current_matches
        /\ ( frame'[Poller].pc = "done" /\ frame'[Poller].ran /\ ~frame'[Poller].raised )
              => \A mid \in DOMAIN frame'[Poller].prev0 \ DOMAIN frame'[Poller].current_matches :
                    ( /\ Validated(frame'[Poller].prev0[mid])
                      /\ ~IsRenamed(frame'[Poller].prev0[mid], frame'[Poller].new_by_identity,
                                    frame'[Poller].current_matches) )
                       => mid \in frame'[Poller].handed ]_vars

\* C35 witness: the upstream answered with a blob that is not empty and
\* holds no complete record while the previous snapshot held a started match
\* with five games or more; the cycle ended without track_matches, the match
\* is still in the previous snapshot and has no FinishedMatch row.
C35_Witness ==
    /\ frame[Poller].pc = "done" /\ ~frame[Poller].failed /\ ~frame[Poller].ran
    /\ BlobOf(frame[Poller].listing) # <<>>
    /\ Decoded[frame[Poller].listing] = <<>>
    /\ previous_matches = frame[Poller].prev0
    /\ \E mid \in DOMAIN previous_matches :
          Validated(previous_matches[mid]) /\ FmCount(mid) = 0

\* C36: the classification of a missing record does not depend on the order
\* in which the set new_ids was iterated: whichever of the identity maps the
\* dict comprehension of lines 99-102 can produce from the two snapshots,
\* every record the call classified RENAMED is RENAMED under it and no record
\* the call handed to the aggregator is.
C36_ClassificationOrderFree ==
    \A t \in Ctx :
        frame[t].ran =>
            LET new_ids == DOMAIN frame[t].current_matches \ DOMAIN frame[t].prev0 IN
            \A new_by_identity \in IdentityMaps(new_ids, frame[t].current_matches) :
                /\ \A mid \in frame[t].renamed :
                      IsRenamed(frame[t].prev0[mid], new_by_identity, frame[t].current_matches)
                /\ \A mid \in frame[t].handed :
                      ~IsRenamed(frame[t].prev0[mid], new_by_identity, frame[t].current_matches)

\* The match_ids the workers of Spec finish.
FinishIds == {match_id(server) : server \in FinishServers}

\* The match_ids of Spec whose finish counts for mod m.
IdsOfMod(m) == {match_id(server) : server \in {s \in FinishServers : _detect_mod(s) = m}}

\* C33: whatever finish calls the workers make, on whatever days, a match_id
\* has at most one committed FinishedMatch row, and for each mod the
\* {mod}_total counters of all days together count no more than one finish
\* for each match_id of that mod (the matches of Spec that can be finished
\* are of different mods, so that the total of a mod is the contribution of
\* its one match).
C33_CountedAtMostOnce ==
    /\ \A mid \in FinishIds : FmCount(mid) <= 1
    /\ \A m \in Mods :
          SumCounters(1, Days, {<<m, "total">>}) <= Cardinality(IdsOfMod(m))

(***************************************************************************)
(* SpecShutdown: a process that polls, another worker on the same store,   *)
(* and the shutdown of the first                                           *)
(***************************************************************************)

\* The worker process that is not the one shut down.
Other == CHOOSE c \in Ctx : c # Poller

\* What the upstream lists in SpecShutdown: one match, then another.
ShutdownListings == {{2}, {4}}

\* The match the other worker finishes.
OtherServer == Decoded[{3}][1]

\* The poll loop schedules a cycle: only while polling has not been stopped.
LoopFetch ==
    /\ hub.app = "serving"
    /\ Fetch(Poller)

\* lifespan, line 70: stop_polling is called.
StopBegin ==
    /\ hub.app = "serving"
    /\ hub' = [hub EXCEPT !.app = "stopping"]
    /\ HubOnly

\* The in-flight cycle is abandoned where it is suspended, in the fetch or in
\* a persistence operation of a finish call: the open transaction is
\* discarded with its session, line 141 is not reached.
AbandonCycle ==
    /\ hub.app = "stopping"
    /\ \/ frame[Poller].pc = "fetching"
       \/ /\ frame[Poller].pc = "finishing"
          /\ sess[Poller].pc \notin {"idle", "returned"}
    /\ frame' = [frame EXCEPT ![Poller] = IdleFrame]
    /\ sess' = [sess EXCEPT ![Poller] = IdleSession]
    /\ UNCHANGED <<fm_rows, ds_rows, scope, previous_matches, clock, dec, gi, hub, mgr>>

\* stop_polling returns: no cycle is in flight.
StopEnd ==
    /\ hub.app = "stopping"
    /\ frame[Poller].pc = "idle"
    /\ hub' = [hub EXCEPT !.app = "stopped"]
    /\ HubOnly

\* lifespan, lines 73-74: save_to_db, which does nothing.
SaveToDb ==
    /\ hub.app = "stopped"
    /\ hub' = [hub EXCEPT !.app = "saved"]
    /\ HubOnly

\* lifespan, line 77: ScraperService.close releases the fetch connection.
CloseClient ==
    /\ hub.app = "saved"
    /\ hub' = [hub EXCEPT !.app = "client_closed"]
    /\ HubOnly

\* lifespan, line 78: close_db disposes of the engine.
CloseDb ==
    /\ hub.app = "client_closed"
    /\ hub' = [hub EXCEPT !.app = "db_closed"]
    /\ HubOnly

NextShutdown ==
    \/ LoopFetch
    \/ \E L \in ShutdownListings : Receive(Poller, L)
    \/ FetchFails(Poller)
    \/ FinishReturn(Poller)
    \/ EndCycle(Poller)
    \/ StopBegin
    \/ AbandonCycle
    \/ StopEnd
    \/ SaveToDb
    \/ CloseClient
    \/ CloseDb
    \/ CallFinish(Other, OtherServer, clock)
    \/ Return(Other)
    \/ \E c \in Ctx :
          \/ FlushFM(c)
          \/ EnsureSelect(c)
          \/ EnsureInsert(c)
          \/ UpdateCounters(c)
          \/ Commit(c)
          \/ Fault(c)

SpecShutdown == Init /\ [][NextShutdown]_vars

\* The matches the process that is shut down can finish.
ShutdownServers == {Decoded[L][1] : L \in ShutdownListings}

\* The poll loop of the process has stopped: no cycle in flight, no
\* transaction open.
LoopStopped == frame[Poller].pc = "idle" /\ sess[Poller].pc = "idle"

\* What the finishes of server have committed is whole: its FinishedMatch
\* row together with one increment of the total of its mod, or neither.
Whole(server) ==
    SumCounters(1, Days, {<<_detect_mod(server), "total">>}) = FmCount(match_id(server))

\* C31: (1) the fetch connection and the database are released only after
\* the poll loop has stopped; (2) once stop_polling has been called no cycle
\* begins; (3) the step that abandons a cycle changes neither the previous
\* snapshot nor a row of the store, and when the shutdown is complete every
\* match of the process is finished whole or not at all.
C31_ShutdownLeavesNothingHalf ==
    /\ [](hub.app \in {"saved", "client_closed", "db_closed"} => LoopStopped)
    /\ [][ /\ hub.app # "serving" => ~(frame[Poller].pc = "idle" /\ frame'[Poller].pc = "fetching")
           /\ ( hub.app = "stopping" /\ frame[Poller].pc # "idle" /\ frame'[Poller] = IdleFrame
                /\ frame[Poller].pc # "done" )
                 => UNCHANGED <<previous_matches, fm_rows, ds_rows>> ]_vars
    /\ [](hub.app = "db_closed" => \A server \in ShutdownServers : Whole(server))

=============================================================================
